---- MODULE Spec2Model ----
(***************************************************************************)
(* Model of cfshare: the multi-item file server (internal/server), its     *)
(* security boundary, and the process supervision of the controller        *)
(* commands (main.go, internal/tunnel, internal/state).                    *)
(*                                                                         *)
(* Strings are sequences of one-character strings, so that the lexical     *)
(* operations of the code (filepath.Clean, filepath.Join, strings.HasPrefix*)
(* strings.TrimPrefix, strings.SplitN) act on characters as they do in Go. *)
(***************************************************************************)
EXTENDS Integers, Sequences, FiniteSets, TLC

----------------------------------------------------------------------------
(* Bounds *)

\* longest request path, in segments
MaxSegs == 3
\* longest path list handed to NewServer
MaxPaths == 2
\* depth of symlink resolution (EvalSymlinks gives up after a fixed number of links)
MaxLinks == 2

----------------------------------------------------------------------------
(* Strings *)

SL == "/"
Dot == <<".">>
DotDot == <<".", ".">>
Empty == <<>>

HasPrefix(s, p) ==
    /\ Len(p) <= Len(s)
    /\ \A i \in 1..Len(p) : s[i] = p[i]

HasSuffix(s, p) ==
    /\ Len(p) <= Len(s)
    /\ SubSeq(s, Len(s) - Len(p) + 1, Len(s)) = p

TrimPrefix(s, p) ==
    IF HasPrefix(s, p) THEN SubSeq(s, Len(p) + 1, Len(s)) ELSE s

HasSlash(s) == \E i \in 1..Len(s) : s[i] = SL

IndexSlash(s) == CHOOSE i \in 1..Len(s) : s[i] = SL /\ \A j \in 1..(i - 1) : s[j] # SL

\* strings.Split(s, "/")
RECURSIVE Split(_)
Split(s) ==
    IF ~HasSlash(s) THEN <<s>>
    ELSE LET i == IndexSlash(s)
         IN  <<SubSeq(s, 1, i - 1)>> \o Split(SubSeq(s, i + 1, Len(s)))

\* strings.SplitN(s, "/", 2)
SplitN2(s) ==
    IF ~HasSlash(s) THEN <<s>>
    ELSE LET i == IndexSlash(s)
         IN  <<SubSeq(s, 1, i - 1), SubSeq(s, i + 1, Len(s))>>

\* strings.Join(segs, "/")
RECURSIVE JoinSep(_)
JoinSep(segs) ==
    IF Len(segs) = 0 THEN Empty
    ELSE IF Len(segs) = 1 THEN segs[1]
    ELSE segs[1] \o <<SL>> \o JoinSep(Tail(segs))

IsRooted(s) == Len(s) > 0 /\ s[1] = SL

Front(q) == SubSeq(q, 1, Len(q) - 1)

\* the element loop of filepath.Clean: "" and "." are dropped, ".." removes the
\* element before it, is dropped at the root, and is kept at the start of a
\* relative path
RECURSIVE CleanSegs(_, _, _)
CleanSegs(segs, out, rooted) ==
    IF Len(segs) = 0 THEN out
    ELSE LET c == Head(segs)
             rest == Tail(segs)
         IN  IF c = Empty \/ c = Dot THEN CleanSegs(rest, out, rooted)
             ELSE IF c = DotDot
                  THEN IF Len(out) > 0 /\ out[Len(out)] # DotDot
                       THEN CleanSegs(rest, Front(out), rooted)
                       ELSE IF rooted THEN CleanSegs(rest, out, rooted)
                       ELSE CleanSegs(rest, Append(out, c), rooted)
             ELSE CleanSegs(rest, Append(out, c), rooted)

\* filepath.Clean
Clean(s) ==
    IF s = Empty THEN Dot
    ELSE LET rooted == IsRooted(s)
             out == CleanSegs(Split(s), <<>>, rooted)
         IN  IF rooted THEN <<SL>> \o JoinSep(out)
             ELSE IF out = <<>> THEN Dot
             ELSE JoinSep(out)

\* filepath.Join(a, b): empty elements are ignored, the result is cleaned
Join(a, b) ==
    IF a = Empty /\ b = Empty THEN Empty
    ELSE IF a = Empty THEN Clean(b)
    ELSE IF b = Empty THEN Clean(a)
    ELSE Clean(a \o <<SL>> \o b)

RECURSIVE StripTrailingSlashes(_)
StripTrailingSlashes(s) ==
    IF Len(s) > 0 /\ s[Len(s)] = SL THEN StripTrailingSlashes(Front(s)) ELSE s

\* filepath.Base
Base(s) ==
    IF s = Empty THEN Dot
    ELSE LET t == StripTrailingSlashes(s)
         IN  IF t = Empty THEN <<SL>>
             ELSE LET segs == Split(t) IN segs[Len(segs)]

----------------------------------------------------------------------------
(* The file system the server reads (os.Stat, filepath.EvalSymlinks).        *)
(* A location is the sequence of its path elements below "/".               *)

nT == <<"t">>
nD == <<"d">>
nD2 == <<"d", "2">>
nS == <<"s">>
nA == <<"a">>
nL == <<"l">>
nO == <<"o">>
nQ == <<"q">>
nX == <<"n", "x">>
nE == <<"e">>
nP == <<"p">>

\* two bytes that are not UTF-8 on their own (file names are byte strings), and
\* the replacement rune U+FFFD
ByteE8 == "0xE8"
ByteE9 == "0xE9"
ReplacementRune == "U+FFFD"

\* two files named in Latin-1
nB1 == <<"b", ByteE8>>
nB2 == <<"b", ByteE9>>

\* the name net/http treats as a directory's index page
nI == <<"i", "n", "d", "e", "x", ".", "h", "t", "m", "l">>

\* "/" followed by the elements joined by "/"
PathOf(segs) == <<SL>> \o JoinSep(segs)

\* where the symlink /t/d/l points, by the file system's configuration
LinkTarget(fs) ==
    CASE fs.link = "in" -> PathOf(<<nT, nD, nA>>)
      [] fs.link = "sib" -> PathOf(<<nT, nD2, nA>>)
      [] fs.link = "out" -> PathOf(<<nT, nO, nA>>)
      [] fs.link = "up" -> PathOf(<<nT>>)
      [] OTHER -> Empty

\* os.Lstat: the kind of the entry at a location, "none" when there is none
Lstat(fs, segs) ==
    CASE segs = <<>> -> "dir"
      [] segs \in {<<nT>>, <<nT, nD>>, <<nT, nD, nS>>, <<nT, nD2>>, <<nT, nO>>, <<nT, nQ>>,
                   <<nE>>} -> "dir"
      [] segs \in {<<nT, nA>>, <<nT, nQ, nA>>, <<nT, nD, nA>>, <<nT, nD, nS, nA>>,
                   <<nE, nP>>, <<nT, nB1>>, <<nT, nB2>>, <<nT, nI>>} -> "file"
      [] segs \in {<<nT, nD2, nA>>, <<nT, nO, nA>>} -> IF fs.secret THEN "file" ELSE "none"
      [] segs = <<nT, nD, nL>> -> IF fs.link = "none" THEN "none" ELSE "link"
      [] OTHER -> "none"

FsConfigs ==
    {[link |-> "none", secret |-> TRUE], [link |-> "in", secret |-> TRUE]}
    \cup [link : {"sib", "out"}, secret : BOOLEAN]

\* the walk of filepath.EvalSymlinks over the remaining elements todo from the
\* resolved location dest: every element is looked up, a link restarts the walk
\* at its (absolute) target, ".." leaves the resolved location
RECURSIVE WalkSymlinks(_, _, _, _)
WalkSymlinks(fs, todo, dest, fuel) ==
    IF Len(todo) = 0 THEN [err |-> "none", segs |-> dest]
    ELSE LET c == Head(todo)
             rest == Tail(todo)
         IN  IF c = Empty \/ c = Dot THEN WalkSymlinks(fs, rest, dest, fuel)
             ELSE IF c = DotDot
                  THEN WalkSymlinks(fs, rest, IF Len(dest) = 0 THEN dest ELSE Front(dest), fuel)
             ELSE IF Lstat(fs, dest) = "file" THEN [err |-> "notdir", segs |-> dest]
             ELSE LET k == Lstat(fs, Append(dest, c))
                  IN  IF k = "none" THEN [err |-> "notexist", segs |-> dest]
                      ELSE IF k = "link"
                           THEN IF fuel = 0 THEN [err |-> "loop", segs |-> dest]
                                ELSE WalkSymlinks(fs, Split(LinkTarget(fs)) \o rest, <<>>, fuel - 1)
                      ELSE WalkSymlinks(fs, rest, Append(dest, c), fuel)

\* filepath.EvalSymlinks of an absolute path: [err, path]
EvalSymlinks(fs, path) ==
    LET w == WalkSymlinks(fs, Split(path), <<>>, MaxLinks)
    IN  [err |-> w.err, path |-> IF w.err = "none" THEN PathOf(w.segs) ELSE Empty]

\* os.Stat of an absolute path (follows links): [err, isDir, real], real being the
\* location whose bytes or entries are read
Stat(fs, path) ==
    LET w == WalkSymlinks(fs, Split(path), <<>>, MaxLinks)
    IN  [err |-> w.err,
         isDir |-> w.err = "none" /\ Lstat(fs, w.segs) = "dir",
         real |-> IF w.err = "none" THEN PathOf(w.segs) ELSE Empty]

----------------------------------------------------------------------------
(* internal/server: construction *)

\* the working directory of the process, against which filepath.Abs resolves
Cwd == PathOf(<<nT>>)

\* filepath.Abs
FilepathAbs(p) == IF IsRooted(p) THEN Clean(p) ELSE Join(Cwd, p)

TypeFile == "file"
TypeDir == "dir"

\* the ShareItem built for one path (NewServer's loop body, cmdAdd, cmdShare)
MakeItem(fs, p) ==
    LET absPath == FilepathAbs(p)
    IN  [Path |-> absPath,
         Name |-> Base(absPath),
         ShareType |-> IF Stat(fs, absPath).isDir THEN TypeDir ELSE TypeFile]

\* buildItemMap: name -> index of the item, or the first name met twice
RECURSIVE buildItemMapFrom(_, _, _)
buildItemMapFrom(items, i, result) ==
    IF i > Len(items) THEN [err |-> "none", map |-> result]
    ELSE IF items[i].Name \in DOMAIN result
         THEN [err |-> "conflict", map |-> <<>>]
         ELSE buildItemMapFrom(items, i + 1,
                  [n \in DOMAIN result \cup {items[i].Name} |->
                      IF n = items[i].Name THEN i ELSE result[n]])

\* buildItemMap as it would be if a repeated name silently replaced the earlier
\* entry
buildItemMapNoConflict(items) ==
    [err |-> "none",
     map |-> [n \in {items[i].Name : i \in 1..Len(items)} |->
                 CHOOSE i \in 1..Len(items) :
                     /\ items[i].Name = n
                     /\ \A j \in 1..Len(items) : items[j].Name = n => j <= i]]

buildItemMap(items) == buildItemMapFrom(items, 1, <<>>)

NoServer == [items |-> <<>>, itemMap |-> <<>>, isMulti |-> FALSE,
             sharePath |-> Empty, shareType |-> ""]

\* NewServer: [err, srv]; srv is NoServer (the nil *Server) whenever err is set
NewServer(fs, paths) ==
    IF Len(paths) = 0 THEN [err |-> "nopaths", srv |-> NoServer]
    ELSE IF \E i \in 1..Len(paths) : Stat(fs, FilepathAbs(paths[i])).err # "none"
         THEN [err |-> "access", srv |-> NoServer]
    ELSE LET items == [i \in 1..Len(paths) |-> MakeItem(fs, paths[i])]
             m == buildItemMap(items)
         IN  IF m.err # "none" THEN [err |-> m.err, srv |-> NoServer]
             ELSE IF Len(items) = 1
                  THEN [err |-> "none",
                        srv |-> [items |-> items, itemMap |-> m.map, isMulti |-> FALSE,
                                 sharePath |-> items[1].Path, shareType |-> items[1].ShareType]]
                  ELSE [err |-> "none",
                        srv |-> [items |-> items, itemMap |-> m.map, isMulti |-> TRUE,
                                 sharePath |-> Empty, shareType |-> ""]]

----------------------------------------------------------------------------
(* internal/server: request handling.  A response is                        *)
(* [status, kind, real, disposition, noStore]: kind says what the body is   *)
(* ("file": the bytes of the file at location real, "dir": the listing of   *)
(* the directory at real, "root": the virtual root listing, "error",        *)
(* "redirect"), disposition is the Content-Disposition file name (Empty     *)
(* when the header is not set), noStore whether Cache-Control: no-store is   *)
(* set.                                                                     *)

StatusOK == 200
StatusMovedPermanently == 301
StatusBadRequest == 400
StatusForbidden == 403
StatusNotFound == 404
StatusInternalServerError == 500

ErrorResp(code) ==
    [status |-> code, kind |-> "error", real |-> Empty, disposition |-> Empty, noStore |-> TRUE]

Forbidden == ErrorResp(StatusForbidden)
NotFound == ErrorResp(StatusNotFound)
InternalServerError == ErrorResp(StatusInternalServerError)

\* net/http containsDotDot: some element of the path is ".."
containsDotDot(url) == LET f == Split(url) IN \E i \in 1..Len(f) : f[i] = DotDot

\* net/http's indexPage
indexPage == <<SL>> \o nI

\* http.ServeFile(w, r, name): refuses a request path with a ".." element,
\* redirects a request path that ends in "/index.html" to "./", else streams the
\* file (or lets net/http list the directory) it finds at name
HttpServeFile(fs, url, name, disposition) ==
    IF containsDotDot(url)
    THEN [ErrorResp(StatusBadRequest) EXCEPT !.disposition = disposition]
    ELSE IF HasSuffix(url, indexPage)
    THEN [status |-> StatusMovedPermanently, kind |-> "redirect", real |-> Empty,
          disposition |-> disposition, noStore |-> TRUE]
    ELSE LET st == Stat(fs, name)
         IN  IF st.err = "notexist" THEN [NotFound EXCEPT !.disposition = disposition]
             ELSE IF st.err # "none"
                  THEN [InternalServerError EXCEPT !.disposition = disposition]
             ELSE [status |-> StatusOK, kind |-> IF st.isDir THEN "dir" ELSE "file",
                   real |-> st.real, disposition |-> disposition, noStore |-> TRUE]

\* the FileInfo of a listing: the name and whether it is a directory (size, time
\* and link play no part in the order)
FileInfo(name, isDir) == [Name |-> name, IsDir |-> isDir]

\* the bytes of the characters names are written with
Bytes ==
    {<<".", 46>>, <<"2", 50>>, <<"B", 66>>, <<"D", 68>>, <<"a", 97>>, <<"d", 100>>,
     <<"e", 101>>, <<"h", 104>>, <<"i", 105>>, <<"l", 108>>, <<"m", 109>>,
     <<"n", 110>>, <<"t", 116>>, <<"x", 120>>}

ByteOf == [c \in {b[1] : b \in Bytes} |-> (CHOOSE b \in Bytes : b[1] = c)[2]]

\* a < b on Go strings: the order of the bytes, a proper prefix first
RECURSIVE StringLess(_, _)
StringLess(a, b) ==
    IF Len(b) = 0 THEN FALSE
    ELSE IF Len(a) = 0 THEN TRUE
    ELSE IF a[1] # b[1] THEN ByteOf[a[1]] < ByteOf[b[1]]
    ELSE StringLess(Tail(a), Tail(b))

\* the comparison as it would be without the directories-first rule
lessByName(files, i, j) == StringLess(files[i].Name, files[j].Name)

\* the less function the three listings hand to sort.Slice
less(files, i, j) ==
    IF files[i].IsDir # files[j].IsDir THEN files[i].IsDir
    ELSE StringLess(files[i].Name, files[j].Name)

Swap(files, i, j) == [files EXCEPT ![i] = files[j], ![j] = files[i]]

\* the inner loop of the insertion sort: the element at j moves down while it
\* is less than the one before it
RECURSIVE SiftDown(_, _)
SiftDown(files, j) ==
    IF j > 1 /\ less(files, j, j - 1) THEN SiftDown(Swap(files, j, j - 1), j - 1)
    ELSE files

RECURSIVE InsertionSort(_, _)
InsertionSort(files, i) ==
    IF i > Len(files) THEN files ELSE InsertionSort(SiftDown(files, i), i + 1)

\* sort.Slice(files, less) on the short slices of a listing (sort.Slice sorts a
\* slice of at most 12 elements by insertion)
SortSlice(files) == InsertionSort(files, 2)

\* listDirectory / listDirectoryWithBase: os.ReadDir, then the rendered listing
ListDirectory(fs, fullPath) ==
    LET st == Stat(fs, fullPath)
    IN  IF st.err # "none" \/ ~st.isDir THEN InternalServerError
        ELSE [status |-> StatusOK, kind |-> "dir", real |-> st.real,
              disposition |-> Empty, noStore |-> TRUE]

\* the entries of the virtual root listing: one per item, sorted
VirtualRootFiles(srv) ==
    SortSlice([i \in 1..Len(srv.items) |->
                  FileInfo(srv.items[i].Name, srv.items[i].ShareType = TypeDir)])

\* listVirtualRoot
listVirtualRoot(srv) ==
    [status |-> StatusOK, kind |-> "root", real |-> Empty,
     disposition |-> Empty, noStore |-> TRUE]

\* serveDirWithBase: directory browsing below one item of a multi-item share
serveDirWithBase(fs, url, basePath, subPath) ==
    LET cleanSub == IF Clean(subPath) = Dot THEN Empty ELSE Clean(subPath)
        evalBase == EvalSymlinks(fs, basePath)
        realBasePath == IF evalBase.err # "none" THEN basePath ELSE evalBase.path
        fullPath == IF cleanSub # Empty THEN Join(realBasePath, cleanSub) ELSE realBasePath
        evalFull == EvalSymlinks(fs, fullPath)
        info == Stat(fs, fullPath)
    IN  IF HasPrefix(cleanSub, DotDot) THEN Forbidden
        ELSE IF ~HasPrefix(fullPath, realBasePath) THEN Forbidden
        ELSE IF evalFull.err = "none" /\ ~HasPrefix(evalFull.path, realBasePath) THEN Forbidden
        ELSE IF info.err # "none"
             THEN IF info.err = "notexist" THEN NotFound ELSE InternalServerError
        ELSE IF info.isDir THEN ListDirectory(fs, fullPath)
        ELSE HttpServeFile(fs, url, fullPath, Base(fullPath))

\* handleMultiShare
handleMultiShare(srv, fs, url) ==
    LET reqPath == TrimPrefix(Clean(url), <<SL>>)
        trimmedPath == TrimPrefix(reqPath, <<SL>>)
        parts == SplitN2(trimmedPath)
        itemName == parts[1]
        subPath == IF Len(parts) > 1 THEN parts[2] ELSE Empty
    IN  IF reqPath = <<SL>> \/ reqPath = Dot \/ reqPath = Empty THEN listVirtualRoot(srv)
        ELSE IF itemName \notin DOMAIN srv.itemMap THEN NotFound
        ELSE LET item == srv.items[srv.itemMap[itemName]]
             IN  IF item.ShareType = TypeFile
                 THEN IF subPath # Empty THEN NotFound
                      ELSE HttpServeFile(fs, url, item.Path, item.Name)
                 ELSE serveDirWithBase(fs, url, item.Path, subPath)

\* serveFile: the single-file share
serveFile(srv, fs, url) ==
    LET fileName == Base(srv.sharePath)
    IN  IF url # <<SL>> /\ url # <<SL>> \o fileName THEN NotFound
        ELSE HttpServeFile(fs, url, srv.sharePath, fileName)

\* serveDir as it would be without its first check (the cleaned request path
\* beginning with "..")
serveDirNoDotDotCheck(srv, fs, url) ==
    LET reqPath == TrimPrefix(Clean(url), <<SL>>)
        fullPath == Join(srv.sharePath, reqPath)
        evalFull == EvalSymlinks(fs, fullPath)
        info == Stat(fs, fullPath)
    IN  IF ~HasPrefix(fullPath, srv.sharePath) THEN Forbidden
        ELSE IF evalFull.err = "none" /\ ~HasPrefix(evalFull.path, srv.sharePath) THEN Forbidden
        ELSE IF info.err # "none"
             THEN IF info.err = "notexist" THEN NotFound ELSE InternalServerError
        ELSE IF info.isDir THEN ListDirectory(fs, fullPath)
        ELSE HttpServeFile(fs, url, fullPath, Base(fullPath))

\* serveDir as it would be if the request path were not cleaned first
serveDirNoClean(srv, fs, url) ==
    LET reqPath == TrimPrefix(url, <<SL>>)
        fullPath == Join(srv.sharePath, reqPath)
        evalFull == EvalSymlinks(fs, fullPath)
        info == Stat(fs, fullPath)
    IN  IF HasPrefix(reqPath, DotDot) THEN Forbidden
        ELSE IF ~HasPrefix(fullPath, srv.sharePath) THEN Forbidden
        ELSE IF evalFull.err = "none" /\ ~HasPrefix(evalFull.path, srv.sharePath) THEN Forbidden
        ELSE IF info.err # "none"
             THEN IF info.err = "notexist" THEN NotFound ELSE InternalServerError
        ELSE IF info.isDir THEN ListDirectory(fs, fullPath)
        ELSE HttpServeFile(fs, url, fullPath, Base(fullPath))

\* serveDir: the single-directory share
serveDir(srv, fs, url) ==
    LET reqPath == TrimPrefix(Clean(url), <<SL>>)
        fullPath == Join(srv.sharePath, reqPath)
        evalFull == EvalSymlinks(fs, fullPath)
        info == Stat(fs, fullPath)
    IN  IF HasPrefix(reqPath, DotDot) THEN Forbidden
        ELSE IF ~HasPrefix(fullPath, srv.sharePath) THEN Forbidden
        ELSE IF evalFull.err = "none" /\ ~HasPrefix(evalFull.path, srv.sharePath) THEN Forbidden
        ELSE IF info.err # "none"
             THEN IF info.err = "notexist" THEN NotFound ELSE InternalServerError
        ELSE IF info.isDir THEN ListDirectory(fs, fullPath)
        ELSE HttpServeFile(fs, url, fullPath, Base(fullPath))

\* handleRequest
handleRequest(srv, fs, url) ==
    IF ~srv.isMulti
    THEN IF srv.shareType = TypeFile THEN serveFile(srv, fs, url) ELSE serveDir(srv, fs, url)
    ELSE handleMultiShare(srv, fs, url)

\* the path net/http's ServeMux redirects an unclean request path to
MuxCleanPath(url) ==
    IF url = Empty THEN <<SL>>
    ELSE LET p == IF IsRooted(url) THEN url ELSE <<SL>> \o url
             np == Clean(p)
         IN  IF p[Len(p)] = SL /\ np # <<SL>> THEN np \o <<SL>> ELSE np

\* Server.Start: the handler is mounted at "/" of a ServeMux, which answers a
\* request whose path is not clean by a redirect and passes the others on
ServeHTTP(srv, fs, url) ==
    IF MuxCleanPath(url) # url
    THEN [status |-> StatusMovedPermanently, kind |-> "redirect", real |-> Empty,
          disposition |-> Empty, noStore |-> FALSE]
    ELSE handleRequest(srv, fs, url)

----------------------------------------------------------------------------
(* State *)

VARIABLES
    fs,        \* the file system configuration
    paths,     \* the path list the server process was started with
    newErr,    \* the error NewServer returned ("none": a server was built)
    srv,       \* the *Server NewServer returned
    req,       \* the last request: [url, via]
    resp,      \* the response to it
    disk,      \* the files under the configuration directory
    procs,     \* the process table: the server and tunnel processes, by pid
    port,      \* who listens on the local port: a pid, PortFree or PortForeign
    ctl,       \* the controller command being run, or the last one run
    sent,      \* the signals the command has sent and the pids it has spawned
    cred,      \* the username and password Server.Start was called with
    stats,     \* the statistics store and the access log: [requestCount, logLines]
    answered,  \* the number of requests the server has answered
    statsFile, \* stats.json: [RequestCount, LastAccess, RecentAccess]
    flock,     \* the call holding the exclusive lock on stats.json, or 0
    calls,     \* the UpdateAccessStats calls under way, one per handler goroutine
    now,       \* the clock the requests' start times are read from
    written,   \* the records written to stats.json so far, in order
    listing,   \* a listing being rendered: [by, entries, files]
    serverProc, \* the goroutines of a server process and its connections
    observed,  \* the request counts LoadStats has returned, in order
    cmds       \* two controller commands run at the same time, each with its position

serveVars == <<fs, paths, newErr, srv, req, resp, listing, serverProc>>
ctlVars == <<disk, procs, port, ctl, sent, cmds>>
statVars == <<statsFile, flock, calls, now, written, observed>>
httpVars == <<cred, stats, answered, statVars>>
vars == <<serveVars, ctlVars, httpVars>>

\* the paths a share can be started with
PathInputs ==
    {PathOf(<<nT, nD>>), PathOf(<<nT, nA>>), PathOf(<<nT, nQ, nA>>), PathOf(<<nT, nX>>)}

\* the elements a request path is made of
UrlElems == {Empty, DotDot, nD, nD2, nS, nA, nL}

\* the paths a server process can be started with
ServePathInputs == PathInputs \cup {PathOf(<<nT, nI>>)}

\* the request for an item named index.html
IndexExample == indexPage

\* the traversal request of TestPathTraversalPrevention
TraversalExample == PathOf(<<nD, DotDot, DotDot, DotDot, nE, nP>>)

SeqsUpTo(S, n) == UNION {[1..k -> S] : k \in 0..n}

\* request paths: rooted ones arrive over HTTP (via "mux") or are handed to the
\* handler directly (via "handler", as the package's tests do); a path that
\* does not start with "/" can only be handed over directly
Requests ==
    {[url |-> <<SL>> \o JoinSep(segs), via |-> v] :
        segs \in SeqsUpTo(UrlElems, MaxSegs), v \in {"mux", "handler"}}
    \cup {[url |-> JoinSep(segs), via |-> "handler"] : segs \in SeqsUpTo(UrlElems, MaxSegs)}
    \cup {[url |-> u, via |-> v] : u \in {TraversalExample, IndexExample},
                                     v \in {"mux", "handler"}}

NoRequest == [url |-> Empty, via |-> "none"]

\* no username and no password: Server.Start mounts no authentication
NoCredentials == [username |-> Empty, password |-> Empty]

\* the statistics store and the access log before the first request
NoStats == [requestCount |-> 0, logLines |-> 0, lastErr |-> "none"]
NoResponse == [status |-> 0, kind |-> "none", real |-> Empty, disposition |-> Empty,
               noStore |-> FALSE]

\* a server process that has not been started
NoServerProc == [main |-> "none", handler |-> "none", listening |-> FALSE, inflight |-> 0,
                 waited |-> 0, exited |-> FALSE, code |-> 0, cut |-> 0, served |-> 0]

\* no listing is being rendered
NoListing == [by |-> "none", entries |-> <<>>, files |-> <<>>]

----------------------------------------------------------------------------
(* internal/state: the persisted state *)

\* most processes the program spawns in one behaviour
MaxPid == 3

DefaultPort == 8787
DefaultUsername == <<"d", "l">>
ModeProtected == "protected"
ModePublic == "public"

\* the share identifier: the time of the share command, in decimal
ShareIDNow == <<"1", "7">>

\* the State cmdShare starts from
NewState(mode, username, password) ==
    [ShareID |-> ShareIDNow, Mode |-> mode, Port |-> DefaultPort, Items |-> <<>>,
     IsMulti |-> FALSE,
     Path |-> Empty, ShareType |-> "", ServerPID |-> 0, TunnelPID |-> 0,
     Username |-> username, Password |-> password]

\* State.Save as it would be if it wrote the record without synchronising the
\* legacy fields
SaveAsIs(s) == s

\* State.Save: the record as written, the legacy fields synchronised first (the
\* receiver is updated too)
Save(s) ==
    IF Len(s.Items) = 1
    THEN [s EXCEPT !.Path = s.Items[1].Path, !.ShareType = s.Items[1].ShareType,
                   !.IsMulti = FALSE]
    ELSE IF Len(s.Items) > 1
         THEN [s EXCEPT !.IsMulti = TRUE, !.Path = Empty, !.ShareType = ""]
         ELSE s

\* state.Load as it would be without the conversion of legacy documents
LoadAsIs(d) == IF d.state = <<>> \/ d.malformed THEN <<>> ELSE d.state

\* state.Load returns an error: state.json is there and is not a JSON document
LoadFails(d) == d.malformed

\* state.Load: <<>> when there is no state file or it cannot be parsed (the nil
\* *State), else the state read, a legacy document turned into a one-item list
Load(d) ==
    IF d.state = <<>> \/ d.malformed THEN <<>>
    ELSE LET s == d.state[1]
         IN  IF Len(s.Items) = 0 /\ s.Path # Empty
             THEN <<[s EXCEPT !.Items = <<[Path |-> s.Path, Name |-> Base(s.Path),
                                           ShareType |-> s.ShareType]>>,
                              !.IsMulti = FALSE]>>
             ELSE <<s>>

NoDisk == [state |-> <<>>, serverPid |-> 0, tunnelPid |-> 0, malformed |-> FALSE]

\* a string as encoding/json writes it: coerced to valid UTF-8, every invalid byte
\* replaced by U+FFFD
ToValidUTF8(str) ==
    [i \in 1..Len(str) |-> IF str[i] \in {ByteE8, ByteE9} THEN ReplacementRune ELSE str[i]]

\* json.MarshalIndent of the State: the document, as json.Unmarshal reads it back
MarshalIndent(s) ==
    [s EXCEPT !.ShareID = ToValidUTF8(@),
              !.Path = ToValidUTF8(@),
              !.Username = ToValidUTF8(@),
              !.Password = ToValidUTF8(@),
              !.Items = [i \in 1..Len(s.Items) |->
                            [s.Items[i] EXCEPT !.Path = ToValidUTF8(@),
                                               !.Name = ToValidUTF8(@)]]]

\* the end of State.Save, s being the receiver after the legacy fields were
\* synchronised: state.json holds the document of s
WriteState(d, s) == [d EXCEPT !.state = <<MarshalIndent(s)>>, !.malformed = FALSE]

----------------------------------------------------------------------------
(* Processes.  status: "unused" (pid not yet given out), "running", "zombie"  *)
(* (exited, its parent command still running and not waiting for it) or      *)
(* "gone"; child: the process was spawned by the command now running.        *)

Pids == 1..MaxPid

NoProc == [role |-> "none", status |-> "unused", phase |-> "none", term |-> FALSE,
           child |-> FALSE, paths |-> <<>>, cred |-> NoCredentials]

NoProcs == [p \in Pids |-> NoProc]

\* the two commands of a concurrent run, and a command not yet started
Commands == {1, 2}
NoCommand == [cmd |-> "none", pc |-> "idle", args |-> <<>>, st |-> <<>>, pid |-> 0,
              exit |-> "none"]
NoCmds == [k \in Commands |-> NoCommand]

PortFreeOrForeign(foreign) == [holder |-> 0, foreign |-> foreign]

IsAlive(ps, pid) == pid \in Pids /\ ps[pid].status = "running"

\* process.Signal(syscall.Signal(0)) == nil: the pid is in the process table, which
\* an exited child that was not waited for still is
isProcessRunning(ps, pid) == pid \in Pids /\ ps[pid].status \in {"running", "zombie"}

\* State.IsRunning
IsRunning(ps, st) ==
    /\ st # <<>>
    /\ st[1].ServerPID # 0
    /\ isProcessRunning(ps, st[1].ServerPID)

\* the process table and the port after process pid has exited
Exited(w, pid) ==
    [procs |-> [w.procs EXCEPT ![pid].status = IF w.procs[pid].child THEN "zombie" ELSE "gone",
                               ![pid].term = FALSE],
     port |-> IF w.port.holder = pid THEN [w.port EXCEPT !.holder = 0] ELSE w.port]

\* process.Signal(syscall.SIGKILL)
SignalKill(w, pid) == IF IsAlive(w.procs, pid) THEN Exited(w, pid) ELSE w

\* SIGTERM as it would be if it were recorded for a process that has exited
SignalTermBlind(w, pid) == [w EXCEPT !.procs[pid].term = TRUE]

\* process.Signal(syscall.SIGTERM): the process is told to stop and exits later
SignalTerm(w, pid) ==
    IF IsAlive(w.procs, pid) THEN [w EXCEPT !.procs[pid].term = TRUE] ELSE w

\* stopProcess as it would be if it sent nothing
stopProcessIdle(w, pid, force) == w

\* stopProcess: a kill when forced; else SIGTERM, and a wait that ends when the
\* process exits or after three seconds with a kill.  process.Wait errs at once
\* for a process that is not a child of the caller, which ends the wait; the
\* commands stop gracefully only processes that an earlier command spawned.
stopProcess(w, pid, force) ==
    IF force THEN SignalKill(w, pid) ELSE SignalTerm(w, pid)

\* the signals stopProcess sends
stopProcessSignals(pid, force) ==
    {[pid |-> pid, sig |-> IF force THEN "KILL" ELSE "TERM"]}

\* the pid a fresh process gets
HasFreshPids(ps, n) == Cardinality({p \in Pids : ps[p].status = "unused"}) >= n
FreshPid(ps) == CHOOSE p \in Pids : ps[p].status = "unused" /\ \A q \in Pids : q < p => ps[q].status # "unused"

\* cmd.Start: the new process, a child of the command; args and cr are the path
\* list and the username and password on its command line
Spawned(ps, pid, role, args, cr) ==
    [ps EXCEPT ![pid] = [role |-> role, status |-> "running", phase |-> "boot",
                         term |-> FALSE, child |-> TRUE, paths |-> args, cred |-> cr]]

\* the command's process exits: its children are orphaned, the exited ones reaped
Orphaned(ps) ==
    [p \in Pids |->
        IF ps[p].child
        THEN [ps[p] EXCEPT !.child = FALSE,
                           !.status = IF ps[p].status = "zombie" THEN "gone" ELSE ps[p].status]
        ELSE ps[p]]

\* GetRunningPID as it would be if the tunnel PID file were never read
GetRunningPIDBlind(d, ps) == 0

\* Manager.GetRunningPID: the pid in the tunnel PID file if that process answers
\* the probe, else 0 (a stale file is removed)
GetRunningPID(d, ps) == IF d.tunnelPid # 0 /\ isProcessRunning(ps, d.tunnelPid) THEN d.tunnelPid ELSE 0

\* Manager.Stop and Manager.ForceStop: process table and port afterwards (the
\* tunnel PID file is gone afterwards in every case)
TunnelStop(w, d, force) ==
    LET pid == GetRunningPID(d, w.procs)
    IN  IF pid = 0 THEN w
        ELSE IF force THEN SignalKill(w, pid) ELSE SignalTerm(w, pid)

TunnelStopSignals(w, d, force) ==
    LET pid == GetRunningPID(d, w.procs)
    IN  IF pid = 0 THEN {} ELSE {[pid |-> pid, sig |-> IF force THEN "KILL" ELSE "TERM"]}

\* cmdStop as it would be if it left the server PID file behind
cmdStopKeepsPidFile(w, d, force) ==
    LET st == Load(d)
    IN  IF st = <<>> THEN [procs |-> w.procs, port |-> w.port, disk |-> d, sent |-> {}]
        ELSE LET w1 == IF st[1].ServerPID > 0 THEN stopProcess(w, st[1].ServerPID, force) ELSE w
                 w2 == TunnelStop(w1, d, force)
             IN  [procs |-> w2.procs, port |-> w2.port,
                  disk |-> [NoDisk EXCEPT !.serverPid = d.serverPid],
                  sent |-> (IF st[1].ServerPID > 0 THEN stopProcessSignals(st[1].ServerPID, force) ELSE {})
                           \cup TunnelStopSignals(w1, d, force)]

\* cmdStop on a loaded state: [procs, port, disk, sent]
cmdStop(w, d, force) ==
    LET st == Load(d)
    IN  IF st = <<>> THEN [procs |-> w.procs, port |-> w.port, disk |-> d, sent |-> {}]
        ELSE LET w1 == IF st[1].ServerPID > 0 THEN stopProcess(w, st[1].ServerPID, force) ELSE w
                 w2 == TunnelStop(w1, d, force)
             IN  [procs |-> w2.procs, port |-> w2.port, disk |-> NoDisk,
                  sent |-> (IF st[1].ServerPID > 0 THEN stopProcessSignals(st[1].ServerPID, force) ELSE {})
                           \cup TunnelStopSignals(w1, d, force)]

----------------------------------------------------------------------------
(* The controller commands (main.go) *)

Password == <<"p", "w">>
GeneratedPassword == <<"g", "e", "n">>

\* the file system of the controller runs
FsCtl == [link |-> "none", secret |-> TRUE]

Idle == [cmd |-> "none", pc |-> "idle", args |-> <<>>, st |-> <<>>, pid |-> 0, tpid |-> 0,
         exit |-> "none", deadAtReturn |-> FALSE, cred |-> NoCredentials]

World == [procs |-> procs, port |-> port]

\* the command returns ("ok") or prints an error and calls os.Exit(1)
Finished(c, code) ==
    [Idle EXCEPT !.cmd = c.cmd, !.exit = code, !.deadAtReturn = c.deadAtReturn]

Begun(cmd, args) == [Idle EXCEPT !.cmd = cmd, !.args = args]

ItemPaths(items) == [i \in 1..Len(items) |-> items[i].Path]
ItemNames(items) == {items[i].Name : i \in 1..Len(items)}

\* os.Stat(path) succeeds
PathExists(p) == Stat(fs, FilepathAbs(p)).err = "none"

\* cmdAdd's loop over the paths without the bookkeeping of the names already
\* taken by earlier paths of the same command
RECURSIVE cmdAddItemsForgetful(_, _, _)
cmdAddItemsForgetful(existingNames, ps, newItems) ==
    IF Len(ps) = 0 THEN [err |-> "none", items |-> newItems]
    ELSE LET path == Head(ps)
             item == MakeItem(fs, path)
         IN  IF ~PathExists(path) THEN [err |-> "not_exist", items |-> <<>>]
             ELSE IF item.Name \in existingNames THEN [err |-> "name_conflict", items |-> <<>>]
             ELSE cmdAddItemsForgetful(existingNames, Tail(ps), Append(newItems, item))

\* cmdAdd's loop over the paths: each must exist and bring a name not yet taken
RECURSIVE cmdAddItems(_, _, _)
cmdAddItems(existingNames, ps, newItems) ==
    IF Len(ps) = 0 THEN [err |-> "none", items |-> newItems]
    ELSE LET path == Head(ps)
             item == MakeItem(fs, path)
         IN  IF ~PathExists(path) THEN [err |-> "not_exist", items |-> <<>>]
             ELSE IF item.Name \in existingNames THEN [err |-> "name_conflict", items |-> <<>>]
             ELSE cmdAddItems(existingNames \cup {item.Name}, Tail(ps), Append(newItems, item))

\* cmdAdd up to the restart: load, validate, append, save
AddBegin(ps, saveOk) ==
    /\ ctl.pc = "idle"
    /\ HasFreshPids(procs, 1)
    /\ LET st == Load(disk)
           c == Begun("add", ps)
       IN  IF LoadFails(disk)
           THEN ctl' = Finished(c, "load_failed") /\ UNCHANGED disk
           ELSE IF st = <<>> \/ ~IsRunning(procs, st)
           THEN ctl' = Finished(c, "not_running") /\ UNCHANGED disk
           ELSE LET r == cmdAddItems(ItemNames(st[1].Items), ps, <<>>)
                    items == st[1].Items \o r.items
                    s2 == Save([st[1] EXCEPT !.Items = items, !.IsMulti = Len(items) > 1])
                IN  IF r.err # "none"
                    THEN ctl' = Finished(c, r.err) /\ UNCHANGED disk
                    ELSE IF ~saveOk
                    THEN ctl' = Finished(c, "save_failed") /\ UNCHANGED disk
                    ELSE /\ ctl' = [c EXCEPT !.pc = "restart_stop", !.st = <<s2>>]
                         /\ disk' = WriteState(disk, s2)
    /\ sent' = {}
    /\ UNCHANGED <<procs, port, cmds, serveVars, httpVars>>

\* cmdRemove's filter as it would be if it dropped the first item whatever the
\* names are
RemainingByPosition(items, names) == Tail(items)

\* the items cmdRemove keeps
Remaining(items, names) == SelectSeq(items, LAMBDA it : it.Name \notin names)

\* cmdRemove up to the restart
RemoveBegin(names, saveOk) ==
    /\ ctl.pc = "idle"
    /\ HasFreshPids(procs, 1)
    /\ LET st == Load(disk)
           c == Begun("remove", names)
           toRemove == {names[i] : i \in 1..Len(names)}
       IN  IF LoadFails(disk)
           THEN ctl' = Finished(c, "load_failed") /\ UNCHANGED disk
           ELSE IF st = <<>> \/ ~IsRunning(procs, st)
           THEN ctl' = Finished(c, "not_running") /\ UNCHANGED disk
           ELSE LET remaining == Remaining(st[1].Items, toRemove)
                    s1 == [st[1] EXCEPT !.Items = remaining, !.IsMulti = Len(remaining) > 1]
                    s2 == Save(IF Len(remaining) = 1
                               THEN [s1 EXCEPT !.Path = remaining[1].Path,
                                               !.ShareType = remaining[1].ShareType]
                               ELSE s1)
                IN  IF Len(st[1].Items) = 0
                    THEN ctl' = Finished(c, "no_items") /\ UNCHANGED disk
                    ELSE IF Len(remaining) = Len(st[1].Items)
                    THEN ctl' = Finished(c, "not_found") /\ UNCHANGED disk
                    ELSE IF Len(remaining) = 0
                    THEN ctl' = Finished(c, "remove_all") /\ UNCHANGED disk
                    ELSE IF ~saveOk
                    THEN ctl' = Finished(c, "save_failed") /\ UNCHANGED disk
                    ELSE /\ ctl' = [c EXCEPT !.pc = "restart_stop", !.st = <<s2>>]
                         /\ disk' = WriteState(disk, s2)
    /\ sent' = {}
    /\ UNCHANGED <<procs, port, cmds, serveVars, httpVars>>

\* restartServer as it would be if it stopped the share the way cmdStop does
restartStopAll(w, d, st) ==
    LET r == cmdStop(w, d, FALSE)
    IN  [procs |-> r.procs, port |-> r.port,
         disk |-> [d EXCEPT !.tunnelPid = 0], sent |-> r.sent]

\* restartServer, first part: the old server is stopped; nothing else is touched
restartStop(w, d, st) ==
    LET w1 == IF st.ServerPID > 0 THEN stopProcess(w, st.ServerPID, FALSE) ELSE w
    IN  [procs |-> w1.procs, port |-> w1.port, disk |-> d,
         sent |-> IF st.ServerPID > 0 THEN stopProcessSignals(st.ServerPID, FALSE) ELSE {}]

RestartStop ==
    /\ ctl.pc = "restart_stop"
    /\ LET r == restartStop(World, disk, ctl.st[1])
       IN  /\ procs' = r.procs
           /\ port' = r.port
           /\ disk' = r.disk
           /\ sent' = sent \cup r.sent
    /\ ctl' = [ctl EXCEPT !.pc = "restart_spawn"]
    /\ UNCHANGED <<cmds, serveVars, httpVars>>

\* json.Marshal(paths): the JSON array of the paths, each coerced to valid UTF-8
PathsJSON(ps) == [i \in 1..Len(ps) |-> ToValidUTF8(ps[i])]

\* the arguments startServerProcess starts the executable with: the marker, the
\* JSON array in base64 (one word of the base64 alphabet), the port, the
\* username and the password
ServerArgs(ps, cr) ==
    <<"__server__", [base64 |-> PathsJSON(ps)], DefaultPort, cr.username, cr.password>>

\* runServerProcess: the path list decoded from the second argument
ServerPaths(argv) == argv[2].base64

\* runServerProcess: the username and the password, read when both are there
ServerCred(argv) ==
    IF Len(argv) >= 5 THEN [username |-> argv[4], password |-> argv[5]] ELSE NoCredentials

\* startServerProcess up to its settle delay: the detached server process is
\* started on the path list with the username and the password, and its pid
\* written to the server PID file
StartServerProcess(ps, cr, okPc, spawnOk) ==
    IF ~spawnOk
    THEN /\ ctl' = Finished(ctl, "spawn_failed")
         /\ procs' = Orphaned(procs)
         /\ UNCHANGED <<disk, sent>>
    ELSE LET pid == FreshPid(procs)
             argv == ServerArgs(ps, cr)
         IN  /\ procs' = Spawned(procs, pid, "server", ServerPaths(argv), ServerCred(argv))
             /\ disk' = [disk EXCEPT !.serverPid = pid]
             /\ sent' = sent \cup {[pid |-> pid, sig |-> "spawn"]}
             /\ ctl' = [ctl EXCEPT !.pc = okPc, !.pid = pid]

\* restartServer after the settle delay of the stop: the new server is spawned
RestartSpawn(spawnOk) ==
    /\ ctl.pc = "restart_spawn"
    /\ StartServerProcess(ItemPaths(ctl.st[1].Items),
                          [username |-> ctl.st[1].Username, password |-> ctl.st[1].Password],
                          "restart_settle", spawnOk)
    /\ UNCHANGED <<port, cmds, serveVars, httpVars>>

\* restartServer after the settle delay of the spawn: the pid is recorded and the
\* state saved (the result of Save is not looked at); the command reports success
RestartFinish(saveOk) ==
    /\ ctl.pc = "restart_settle"
    /\ LET s2 == Save([ctl.st[1] EXCEPT !.ServerPID = ctl.pid])
       IN  /\ disk' = IF saveOk THEN WriteState(disk, s2) ELSE disk
           /\ ctl' = Finished([ctl EXCEPT !.deadAtReturn = ~IsAlive(procs, ctl.pid)], "ok")
    /\ procs' = Orphaned(procs)
    /\ UNCHANGED <<port, sent, cmds, serveVars, httpVars>>

\* cmdShare as it would be without its check of the names
NameConflictUnchecked(ps) == FALSE

\* cmdShare's check of the names: two paths with one base name
NameConflict(ps) ==
    \E i, j \in 1..Len(ps) : i < j /\ Base(FilepathAbs(ps[i])) = Base(FilepathAbs(ps[j]))

\* cmdShare up to the spawn of the server: the paths are checked, a running share
\* is stopped (cmdStop) and its state cleared, the credentials are chosen
ShareBegin(ps, public, password) ==
    /\ ctl.pc = "idle"
    /\ HasFreshPids(procs, 1)
    /\ LET c == Begun("share", ps)
           existing == Load(disk)
           username == IF public THEN Empty ELSE DefaultUsername
           pw == IF ~public /\ password = Empty THEN GeneratedPassword ELSE password
           st == [NewState(IF public THEN ModePublic ELSE ModeProtected, Empty, Empty)
                     EXCEPT !.Username = IF public THEN Empty ELSE username,
                            !.Password = IF public THEN Empty ELSE pw]
       IN  IF (\E i \in 1..Len(ps) : ~PathExists(ps[i])) \/ NameConflict(ps)
           THEN /\ ctl' = Finished(c, IF \E i \in 1..Len(ps) : ~PathExists(ps[i])
                                      THEN "not_exist" ELSE "name_conflict")
                /\ sent' = {}
                /\ UNCHANGED <<disk, procs, port>>
           ELSE LET r == IF IsRunning(procs, existing)
                         THEN cmdStop(World, disk, FALSE)
                         ELSE [procs |-> procs, port |-> port, disk |-> disk, sent |-> {}]
                IN  /\ procs' = r.procs
                    /\ port' = r.port
                    /\ disk' = r.disk
                    /\ sent' = r.sent
                    /\ ctl' = [c EXCEPT !.pc = "share_spawn", !.st = <<st>>,
                                        !.cred = [username |-> username, password |-> pw]]
    /\ UNCHANGED <<cmds, serveVars, httpVars>>

\* cmdShare: the public URL is found (or the command gives up), the server spawned
ShareSpawn(urlOk, spawnOk) ==
    /\ ctl.pc = "share_spawn"
    /\ IF ~urlOk
       THEN /\ ctl' = Finished(ctl, "no_url")
            /\ procs' = Orphaned(procs)
            /\ UNCHANGED <<disk, sent>>
       ELSE StartServerProcess(ctl.args, ctl.cred, "share_tunnel", spawnOk)
    /\ UNCHANGED <<port, cmds, serveVars, httpVars>>

\* the items cmdShare records
ShareItems(ps) == [i \in 1..Len(ps) |-> MakeItem(fs, ps[i])]

\* the end of cmdShare: the pids and the items are recorded, the state is saved (a
\* failed save is only warned about) and the share reported as started
ShareSaved(c, tpid, saveOk, d) ==
    LET items == ShareItems(c.args)
        s1 == [c.st[1] EXCEPT !.ServerPID = c.pid, !.TunnelPID = tpid,
                              !.Items = items, !.IsMulti = Len(items) > 1]
        s2 == Save(IF Len(items) = 1
                   THEN [s1 EXCEPT !.Path = items[1].Path, !.ShareType = items[1].ShareType]
                   ELSE s1)
    IN  [ctl |-> Finished(c, "ok"),
         disk |-> IF saveOk THEN WriteState(d, s2) ELSE d]

\* cmdShare after startServerProcess has returned: Manager.Start up to its settle
\* delay.  cloudflared is looked up first; then a tunnel that is already running
\* is reused; else one is started (which fails when the log file or the process
\* cannot be created).  A failure kills the server just spawned and ends the
\* command.
ShareTunnel(lookPathOk, startOk, savePidOk, saveOk) ==
    /\ ctl.pc = "share_tunnel"
    /\ LET existing == GetRunningPID(disk, procs)
           d0 == IF existing = 0 THEN [disk EXCEPT !.tunnelPid = 0] ELSE disk
           c == [ctl EXCEPT !.deadAtReturn = ~IsAlive(procs, ctl.pid)]
       IN  IF ~lookPathOk
           THEN LET w == stopProcess(World, ctl.pid, TRUE)
                IN  /\ procs' = Orphaned(w.procs)
                    /\ port' = w.port
                    /\ disk' = disk
                    /\ sent' = sent \cup stopProcessSignals(ctl.pid, TRUE)
                    /\ ctl' = Finished(c, "cloudflared_not_found")
           ELSE IF existing # 0
           THEN LET r == ShareSaved(c, existing, saveOk, d0)
                IN  /\ procs' = Orphaned(procs)
                    /\ port' = port
                    /\ disk' = r.disk
                    /\ sent' = sent
                    /\ ctl' = r.ctl
           ELSE IF ~startOk \/ ~HasFreshPids(procs, 1)
           THEN LET w == stopProcess(World, ctl.pid, TRUE)
                IN  /\ procs' = Orphaned(w.procs)
                    /\ port' = w.port
                    /\ disk' = d0
                    /\ sent' = sent \cup stopProcessSignals(ctl.pid, TRUE)
                    /\ ctl' = Finished(c, "tunnel_failed")
           ELSE LET tpid == FreshPid(procs)
                    ps1 == Spawned(procs, tpid, "tunnel", <<>>, NoCredentials)
                IN  IF savePidOk
                    THEN /\ procs' = ps1
                         /\ port' = port
                         /\ disk' = [d0 EXCEPT !.tunnelPid = tpid]
                         /\ sent' = sent \cup {[pid |-> tpid, sig |-> "spawn"]}
                         /\ ctl' = [c EXCEPT !.pc = "share_tunnel_settle", !.tpid = tpid]
                    ELSE LET w1 == SignalKill([procs |-> ps1, port |-> port], tpid)
                             w2 == stopProcess(w1, ctl.pid, TRUE)
                         IN  /\ procs' = Orphaned(w2.procs)
                             /\ port' = w2.port
                             /\ disk' = d0
                             /\ sent' = sent \cup {[pid |-> tpid, sig |-> "spawn"],
                                                   [pid |-> tpid, sig |-> "KILL"]}
                                             \cup stopProcessSignals(ctl.pid, TRUE)
                             /\ ctl' = Finished(c, "tunnel_failed")
    /\ UNCHANGED <<cmds, serveVars, httpVars>>

\* Manager.Start after its settle delay (the tunnel must still answer the probe),
\* then the end of cmdShare
ShareFinish(saveOk) ==
    /\ ctl.pc = "share_tunnel_settle"
    /\ IF ~isProcessRunning(procs, ctl.tpid)
       THEN LET w == stopProcess(World, ctl.pid, TRUE)
            IN  /\ procs' = Orphaned(w.procs)
                /\ port' = w.port
                /\ disk' = disk
                /\ sent' = sent \cup stopProcessSignals(ctl.pid, TRUE)
                /\ ctl' = Finished(ctl, "tunnel_died")
       ELSE LET r == ShareSaved(ctl, ctl.tpid, saveOk, disk)
            IN  /\ procs' = Orphaned(procs)
                /\ port' = port
                /\ disk' = r.disk
                /\ sent' = sent
                /\ ctl' = r.ctl
    /\ UNCHANGED <<cmds, serveVars, httpVars>>

\* cmdStatus: what the status command prints for the files d
cmdStatus(d) ==
    IF LoadFails(d) THEN "load_failed"
    ELSE IF Load(d) = <<>> THEN "no_active_share" ELSE "share_status"

\* the stop command
Stop(force) ==
    /\ ctl.pc = "idle"
    /\ LET r == cmdStop(World, disk, force)
       IN  /\ procs' = r.procs
           /\ port' = r.port
           /\ disk' = r.disk
           /\ sent' = r.sent
    /\ ctl' = Finished(Begun("stop", <<>>),
                       IF LoadFails(disk) THEN "load_failed"
                       ELSE IF Load(disk) = <<>> THEN "no_active_share" ELSE "ok")
    /\ UNCHANGED <<cmds, serveVars, httpVars>>

----------------------------------------------------------------------------
(* The spawned processes *)

\* runServerProcess: the server is built from the path list and binds the port;
\* the process exits when either fails
ServerBoot(pid) ==
    /\ procs[pid].role = "server"
    /\ procs[pid].status = "running"
    /\ procs[pid].phase = "boot"
    /\ ~procs[pid].term
    /\ IF NewServer(fs, procs[pid].paths).err = "none" /\ port.holder = 0 /\ ~port.foreign
       THEN /\ procs' = [procs EXCEPT ![pid].phase = "serving"]
            /\ port' = [port EXCEPT !.holder = pid]
       ELSE LET w == Exited(World, pid)
            IN  procs' = w.procs /\ port' = w.port
    /\ UNCHANGED <<disk, ctl, sent, cmds, serveVars, httpVars>>

\* a process that was sent SIGTERM exits (the server's signal handler shuts the
\* listener down and exits; before the handler is installed the signal ends it)
Terminate(pid) ==
    /\ procs[pid].status = "running"
    /\ procs[pid].term
    /\ LET w == Exited(World, pid)
       IN  procs' = w.procs /\ port' = w.port
    /\ UNCHANGED <<disk, ctl, sent, cmds, serveVars, httpVars>>

\* the tunnel client exits by itself
TunnelExit(pid) ==
    /\ procs[pid].role = "tunnel"
    /\ procs[pid].status = "running"
    /\ LET w == Exited(World, pid)
       IN  procs' = w.procs /\ port' = w.port
    /\ UNCHANGED <<disk, ctl, sent, cmds, serveVars, httpVars>>

----------------------------------------------------------------------------
(* internal/state: the access statistics.  Every request handler goroutine,    *)
(* in whichever server process, calls UpdateAccessStats when its response is   *)
(* written.                                                                    *)

\* the handler goroutines that run at one time
MaxCallers == 2
\* most calls of UpdateAccessStats in one behaviour
MaxCalls == 12
\* the length the recent records are cut to
MaxRecent == 10

Callers == 1..MaxCallers

\* what json.Unmarshal leaves of the stats struct when stats.json is empty
ZeroStats == [RequestCount |-> 0, LastAccess |-> 0, RecentAccess |-> <<>>]

\* no call under way: pc, the record handed over, the stats struct read
NoCall == [pc |-> "none", record |-> [Time |-> 0], stats |-> ZeroStats]

\* the last n elements of a slice: s[len(s)-n:]
LastN(s, n) == IF Len(s) > n THEN SubSeq(s, Len(s) - n + 1, Len(s)) ELSE s

\* the update as it would be if the oldest records were kept
UpdatedKeepOldest(st, record) ==
    [RequestCount |-> st.RequestCount + 1,
     LastAccess |-> record.Time,
     RecentAccess |-> SubSeq(Append(st.RecentAccess, record), 1,
                             IF Len(st.RecentAccess) + 1 > MaxRecent THEN MaxRecent
                             ELSE Len(st.RecentAccess) + 1)]

\* the stats struct after the update of UpdateAccessStats
Updated(st, record) ==
    [RequestCount |-> st.RequestCount + 1,
     LastAccess |-> record.Time,
     RecentAccess |-> LastN(Append(st.RecentAccess, record), MaxRecent)]

\* flock as it would be if it granted the lock whoever holds it
FlockGrantsAlways(holder) == TRUE

\* syscall.Flock(LOCK_EX) returns once no other open file holds the lock
FlockGrants(holder) == holder = 0

\* the deferred calls as they would be if the file were left open and locked
ReleasedNever(holder, c) == holder

\* the deferred Flock(LOCK_UN) and f.Close(): the lock of call c is dropped
Released(holder, c) == IF holder = c THEN 0 ELSE holder

StatsAtRest ==
    /\ statsFile = ZeroStats
    /\ flock = 0
    /\ calls = [c \in Callers |-> NoCall]
    /\ now = 1
    /\ written = <<>>
    /\ observed = <<>>

\* the requests, by start time, whose OpenFile or Flock may fail
FaultTimes == {2, MaxRecent + 1}

\* loggingMiddleware calls UpdateAccessStats with the record of the request; the
\* file is opened, or the call returns the error and the record is dropped
UpdateOpen(c, openOk) ==
    /\ calls[c].pc = "none"
    /\ now <= MaxCalls
    /\ openOk \/ now \in FaultTimes
    /\ now' = now + 1
    /\ calls' = [calls EXCEPT ![c] =
                    IF openOk
                    THEN [NoCall EXCEPT !.pc = "flock", !.record = [Time |-> now]]
                    ELSE NoCall]
    /\ UNCHANGED <<statsFile, flock, written, observed, serveVars, ctlVars, cred, stats, answered>>

\* syscall.Flock(LOCK_EX): the call blocks until the lock is granted; when Flock
\* fails the deferred Close runs and the error is returned
UpdateFlock(c, lockOk) ==
    /\ calls[c].pc = "flock"
    /\ lockOk \/ calls[c].record.Time \in FaultTimes
    /\ IF lockOk
       THEN /\ FlockGrants(flock)
            /\ flock' = c
            /\ calls' = [calls EXCEPT ![c].pc = "read"]
       ELSE /\ flock' = flock
            /\ calls' = [calls EXCEPT ![c] = NoCall]
    /\ UNCHANGED <<statsFile, now, written, observed, serveVars, ctlVars, cred, stats, answered>>

\* os.ReadFile and json.Unmarshal: the stats struct as stored
UpdateRead(c) ==
    /\ calls[c].pc = "read"
    /\ calls' = [calls EXCEPT ![c].pc = "write", ![c].stats = statsFile]
    /\ UNCHANGED <<statsFile, flock, now, written, observed, serveVars, ctlVars, cred, stats, answered>>

\* the struct is updated and written back over the truncated file
UpdateWrite(c) ==
    /\ calls[c].pc = "write"
    /\ statsFile' = Updated(calls[c].stats, calls[c].record)
    /\ written' = Append(written, calls[c].record)
    /\ calls' = [calls EXCEPT ![c].pc = "unlock", ![c].stats = ZeroStats]
    /\ UNCHANGED <<flock, now, observed, serveVars, ctlVars, cred, stats, answered>>

\* return nil: the deferred unlock and close run, the handler goroutine is free
\* for its next request
UpdateReturn(c) ==
    /\ calls[c].pc = "unlock"
    /\ flock' = Released(flock, c)
    /\ calls' = [calls EXCEPT ![c] = NoCall]
    /\ UNCHANGED <<statsFile, now, written, observed, serveVars, ctlVars, cred, stats, answered>>

----------------------------------------------------------------------------
(* The controller and its processes *)

NamesToRemove == {nD, nA, nX}

\* the path lists given to the share command: a directory, a file, both, two
\* files of one name, a path that does not exist, two files named in Latin-1
ShareInputs ==
    {<<PathOf(<<nT, nD>>)>>,
     <<PathOf(<<nT, nA>>)>>,
     <<PathOf(<<nT, nD>>), PathOf(<<nT, nA>>)>>,
     <<PathOf(<<nT, nA>>), PathOf(<<nT, nQ, nA>>)>>,
     <<PathOf(<<nT, nX>>)>>,
     <<PathOf(<<nT, nB1>>), PathOf(<<nT, nB2>>)>>}

\* what an earlier run can leave behind: a tunnel PID file that names a tunnel
\* process which has exited
StaleTunnel == [role |-> "tunnel", status |-> "gone", phase |-> "boot", term |-> FALSE,
                child |-> FALSE, paths |-> <<>>, cred |-> NoCredentials]

\* and: a state.json that was cut short while it was written, the server of that
\* share still serving
LeftServer == [role |-> "server", status |-> "running", phase |-> "serving", term |-> FALSE,
               child |-> FALSE, paths |-> <<PathOf(<<nT, nD>>)>>, cred |-> NoCredentials]

InitCtl ==
    /\ \E left \in {"nothing", "tunnel", "malformed"} :
          /\ disk = CASE left = "nothing" -> NoDisk
                      [] left = "tunnel" -> [NoDisk EXCEPT !.tunnelPid = 1]
                      [] left = "malformed" -> [NoDisk EXCEPT !.malformed = TRUE, !.serverPid = 1]
          /\ procs = CASE left = "nothing" -> NoProcs
                       [] left = "tunnel" -> [NoProcs EXCEPT ![1] = StaleTunnel]
                       [] left = "malformed" -> [NoProcs EXCEPT ![1] = LeftServer]
          /\ port \in IF left = "malformed" THEN {[holder |-> 1, foreign |-> FALSE]}
                      ELSE {PortFreeOrForeign(f) : f \in BOOLEAN}
    /\ ctl = Idle
    /\ sent = {}
    /\ cred = NoCredentials
    /\ stats = NoStats
    /\ answered = 0
    /\ StatsAtRest
    /\ fs = FsCtl
    /\ paths = <<>>
    /\ newErr = "unbuilt"
    /\ srv = NoServer
    /\ req = NoRequest
    /\ resp = NoResponse
    /\ listing = NoListing
    /\ serverProc = NoServerProc
    /\ cmds = NoCmds

NextCtl ==
    \/ \E ps \in ShareInputs, public \in BOOLEAN, password \in {Password} :
          ShareBegin(ps, public, password)
    \/ \E urlOk, spawnOk \in BOOLEAN : ShareSpawn(urlOk, spawnOk)
    \/ \E lookPathOk, startOk, savePidOk, saveOk \in BOOLEAN :
          ShareTunnel(lookPathOk, startOk, savePidOk, saveOk)
    \/ \E saveOk \in BOOLEAN : ShareFinish(saveOk)
    \/ \E ps \in SeqsUpTo(PathInputs, MaxPaths) \ {<<>>}, saveOk \in BOOLEAN : AddBegin(ps, saveOk)
    \/ \E names \in SeqsUpTo(NamesToRemove, MaxPaths) \ {<<>>}, saveOk \in BOOLEAN :
          RemoveBegin(names, saveOk)
    \/ RestartStop
    \/ \E spawnOk \in BOOLEAN : RestartSpawn(spawnOk)
    \/ \E saveOk \in BOOLEAN : RestartFinish(saveOk)
    \/ \E force \in BOOLEAN : Stop(force)
    \/ \E pid \in Pids : ServerBoot(pid)
    \/ \E pid \in Pids : Terminate(pid)
    \/ \E pid \in Pids : TunnelExit(pid)

SpecCtl == InitCtl /\ [][NextCtl]_vars

InitServe ==
    /\ fs \in FsConfigs
    /\ paths = <<>>
    /\ newErr = "unbuilt"
    /\ srv = NoServer
    /\ req = NoRequest
    /\ resp = NoResponse
    /\ listing = NoListing
    /\ serverProc = NoServerProc
    /\ cmds = NoCmds
    /\ disk = NoDisk
    /\ procs = NoProcs
    /\ port = PortFreeOrForeign(FALSE)
    /\ ctl = Idle
    /\ sent = {}
    /\ cred = NoCredentials
    /\ stats = NoStats
    /\ answered = 0
    /\ StatsAtRest

\* runServerProcess: the server process builds its Server from the path list
RunServerProcess(ps) ==
    /\ newErr = "unbuilt"
    /\ LET r == NewServer(fs, ps)
       IN  /\ paths' = ps
           /\ newErr' = r.err
           /\ srv' = r.srv
    /\ UNCHANGED <<serverProc, listing, fs, req, resp, ctlVars, httpVars>>

\* one request served by the running server
Request(q) ==
    /\ newErr = "none"
    /\ req = NoRequest
    /\ req' = q
    /\ resp' = IF q.via = "mux" THEN ServeHTTP(srv, fs, q.url)
               ELSE handleRequest(srv, fs, q.url)
    /\ UNCHANGED <<serverProc, listing, fs, paths, newErr, srv, ctlVars, httpVars>>

\* the response has been written and the handler has returned: the server is
\* ready for the next request
Respond ==
    /\ req # NoRequest
    /\ req' = NoRequest
    /\ resp' = NoResponse
    /\ UNCHANGED <<serverProc, listing, fs, paths, newErr, srv, ctlVars, httpVars>>

NextServe ==
    \/ \E ps \in SeqsUpTo(ServePathInputs, MaxPaths) : RunServerProcess(ps)
    \/ \E q \in Requests : Request(q)
    \/ Respond

SpecServe == InitServe /\ [][NextServe]_vars

----------------------------------------------------------------------------
(* The handler chain of Server.Start: ServeMux, Basic Auth, logging, handler *)

MaxRequests == 3

StatusUnauthorized == 401

\* the Authorization header of a request: absent, or a scheme followed by a
\* token; decodable says whether the token is base64, decoded is what it decodes to
NoAuthorization == [scheme |-> "none", decodable |-> FALSE, decoded |-> Empty]

Colon == ":"

\* a password with a colon in it
ColonPassword == <<"p", Colon, "w">>

\* http.Request.SetBasicAuth: "Basic " and the base64 of username ":" password
SetBasicAuth(username, password) ==
    [scheme |-> "Basic", decodable |-> TRUE, decoded |-> username \o <<Colon>> \o password]

AuthorizationInputs ==
    {NoAuthorization,
     [scheme |-> "Bearer", decodable |-> TRUE, decoded |-> DefaultUsername \o <<Colon>> \o Password],
     [scheme |-> "Basic", decodable |-> FALSE, decoded |-> Empty],
     [scheme |-> "Basic", decodable |-> TRUE, decoded |-> DefaultUsername],
     SetBasicAuth(DefaultUsername, Password),
     SetBasicAuth(DefaultUsername, GeneratedPassword),
     SetBasicAuth(<<"x">>, Password),
     SetBasicAuth(DefaultUsername, ColonPassword)}

\* strings.SplitN(s, ":", 2)
SplitNColon(str) ==
    IF \A i \in 1..Len(str) : str[i] # Colon THEN <<str>>
    ELSE LET i == CHOOSE k \in 1..Len(str) :
                      str[k] = Colon /\ \A j \in 1..(k - 1) : str[j] # Colon
         IN  <<SubSeq(str, 1, i - 1), SubSeq(str, i + 1, Len(str))>>

\* auth.unauthorized: 401 with a WWW-Authenticate header and nothing else
unauthorized ==
    [status |-> StatusUnauthorized, kind |-> "error", real |-> Empty,
     disposition |-> Empty, noStore |-> FALSE]

\* BasicAuthMiddleware as it would be if it compared the username only
BasicAuthPassesAnyPassword(username, password, authorization) ==
    /\ authorization.scheme = "Basic"
    /\ authorization.decodable
    /\ SplitNColon(authorization.decoded)[1] = username

\* BasicAuthMiddleware lets the request through to the next handler: the header
\* begins with "Basic ", the rest is base64, and what it decodes to splits at
\* its first colon into the username and the password
BasicAuthPasses(username, password, authorization) ==
    /\ authorization.scheme = "Basic"
    /\ authorization.decodable
    /\ LET parts == SplitNColon(authorization.decoded)
       IN  /\ Len(parts) = 2
           /\ parts[1] = username
           /\ parts[2] = password

\* Server.Start as it would be if a password alone mounted the authentication
AuthEnforcedByPassword(cr) == cr.password # Empty

\* Server.Start mounts BasicAuthMiddleware
AuthEnforced(cr) == cr.username # Empty /\ cr.password # Empty

\* loggingMiddleware after the handler has returned: UpdateAccessStats and
\* appendToAccessLog
Logged(st, err) ==
    [requestCount |-> IF err = "none" THEN st.requestCount + 1 ELSE st.requestCount,
     logLines |-> st.logLines + 1,
     lastErr |-> err]

\* the errors UpdateAccessStats can return: OpenFile failed, Flock failed
UpdateErrors == {"none", "open", "flock"}

\* loggingMiddleware as it would be if a failed update failed the request
loggingMiddlewareStrict(inner, st, err) ==
    [resp |-> IF err = "none" THEN inner ELSE InternalServerError,
     stats |-> Logged(st, err)]

\* loggingMiddleware: the inner handler has written the response before the
\* statistics are updated, and the result of the update is dropped
loggingMiddleware(inner, st, err) == [resp |-> inner, stats |-> Logged(st, err)]

\* Server.Start: the response to request q and the statistics afterwards.  The
\* ServeMux is outermost, Basic Auth (when a username and a password are given)
\* wraps the logging middleware, which wraps handleRequest.
Start(sv, cr, q, st, err) ==
    IF MuxCleanPath(q.url) # q.url
    THEN [resp |-> ServeHTTP(sv, fs, q.url), stats |-> st]
    ELSE IF AuthEnforced(cr) /\ ~BasicAuthPasses(cr.username, cr.password, q.authorization)
    THEN [resp |-> unauthorized, stats |-> st]
    ELSE loggingMiddleware(handleRequest(sv, fs, q.url), st, err)

\* the shares and the credentials the served shares are started with
HttpShares ==
    {<<PathOf(<<nT, nD>>)>>, <<PathOf(<<nT, nA>>)>>,
     <<PathOf(<<nT, nD>>), PathOf(<<nT, nA>>)>>}

CredentialInputs ==
    {NoCredentials,
     [username |-> Empty, password |-> Password],
     [username |-> DefaultUsername, password |-> Password],
     [username |-> DefaultUsername, password |-> ColonPassword]}

\* the requests that arrive over HTTP
HttpRequests ==
    {[url |-> <<SL>> \o JoinSep(segs), via |-> "mux", authorization |-> a] :
        segs \in SeqsUpTo({nD, nA, nX, DotDot}, 2), a \in AuthorizationInputs}

InitHttp ==
    /\ fs = FsCtl
    /\ paths \in HttpShares
    /\ newErr = "none"
    /\ srv = NewServer(fs, paths).srv
    /\ cred \in CredentialInputs
    /\ stats = NoStats
    /\ answered = 0
    /\ StatsAtRest
    /\ req = NoRequest
    /\ resp = NoResponse
    /\ listing = NoListing
    /\ serverProc = NoServerProc
    /\ cmds = NoCmds
    /\ disk = NoDisk
    /\ procs = NoProcs
    /\ port = PortFreeOrForeign(FALSE)
    /\ ctl = Idle
    /\ sent = {}

\* one request answered by the listening server
HttpRequest(q, err) ==
    /\ req = NoRequest
    /\ answered < MaxRequests
    /\ LET r == Start(srv, cred, q, stats, err)
       IN  /\ resp' = r.resp
           /\ stats' = r.stats
    /\ req' = q
    /\ answered' = answered + 1
    /\ UNCHANGED <<serverProc, listing, fs, paths, newErr, srv, cred, ctlVars, statVars>>

\* the connection is ready for the next request
HttpDone ==
    /\ req # NoRequest
    /\ req' = NoRequest
    /\ resp' = NoResponse
    /\ UNCHANGED <<serverProc, listing, fs, paths, newErr, srv, ctlVars, httpVars>>

NextHttp ==
    \/ \E q \in HttpRequests, err \in UpdateErrors : HttpRequest(q, err)
    \/ HttpDone

SpecHttp == InitHttp /\ [][NextHttp]_vars

----------------------------------------------------------------------------
(* Concurrent updates of the access statistics *)

InitStats ==
    /\ StatsAtRest
    /\ fs = FsCtl
    /\ paths = <<>>
    /\ newErr = "unbuilt"
    /\ srv = NoServer
    /\ req = NoRequest
    /\ resp = NoResponse
    /\ listing = NoListing
    /\ serverProc = NoServerProc
    /\ cmds = NoCmds
    /\ disk = NoDisk
    /\ procs = NoProcs
    /\ port = PortFreeOrForeign(FALSE)
    /\ ctl = Idle
    /\ sent = {}
    /\ cred = NoCredentials
    /\ stats = NoStats
    /\ answered = 0

NextStats ==
    \/ \E c \in Callers, openOk \in BOOLEAN : UpdateOpen(c, openOk)
    \/ \E c \in Callers, lockOk \in BOOLEAN : UpdateFlock(c, lockOk)
    \/ \E c \in Callers : UpdateRead(c)
    \/ \E c \in Callers : UpdateWrite(c)
    \/ \E c \in Callers : UpdateReturn(c)

SpecStats == InitStats /\ [][NextStats]_vars

\* the scheduler runs every goroutine that can take a step, and the kernel grants
\* the lock to a call that stays able to take it
FairStats ==
    \A c \in Callers :
        /\ WF_vars(UpdateFlock(c, TRUE))
        /\ WF_vars(UpdateRead(c))
        /\ WF_vars(UpdateWrite(c))
        /\ WF_vars(UpdateReturn(c))

SpecStatsFair == SpecStats /\ FairStats

----------------------------------------------------------------------------
(* The access statistics read by the status command while requests are served *)

\* most reads of the statistics in one behaviour, and most requests served
\* meanwhile
MaxReads == 2
MaxReaderCalls == 4

\* f.Truncate(0): stats.json is empty, which LoadStats and UpdateAccessStats
\* unmarshal to the zero struct
UpdateTruncate(c) ==
    /\ calls[c].pc = "write"
    /\ statsFile' = ZeroStats
    /\ calls' = [calls EXCEPT ![c].pc = "rewrite"]
    /\ UNCHANGED <<flock, now, written, observed, serveVars, ctlVars, cred, stats, answered>>

\* f.Seek(0, 0) and f.Write(newData): the updated struct is in the file
UpdateRewrite(c) ==
    /\ calls[c].pc = "rewrite"
    /\ statsFile' = Updated(calls[c].stats, calls[c].record)
    /\ written' = Append(written, calls[c].record)
    /\ calls' = [calls EXCEPT ![c].pc = "unlock", ![c].stats = ZeroStats]
    /\ UNCHANGED <<flock, now, observed, serveVars, ctlVars, cred, stats, answered>>

\* LoadStats, called by FormatStatus: os.ReadFile without the lock, and the
\* request count of what was read
LoadStats ==
    /\ Len(observed) < MaxReads
    /\ observed' = Append(observed, statsFile.RequestCount)
    /\ UNCHANGED <<statsFile, flock, calls, now, written, serveVars, ctlVars, cred, stats,
                   answered>>

NextReader ==
    \/ \E c \in Callers : now <= MaxReaderCalls /\ UpdateOpen(c, TRUE)
    \/ \E c \in Callers : UpdateFlock(c, TRUE)
    \/ \E c \in Callers : UpdateRead(c)
    \/ \E c \in Callers : UpdateTruncate(c)
    \/ \E c \in Callers : UpdateRewrite(c)
    \/ \E c \in Callers : UpdateReturn(c)
    \/ LoadStats

SpecReader == InitStats /\ [][NextReader]_vars

----------------------------------------------------------------------------
(* internal/state: Save and Load on their own, as the package's tests run them *)

\* the items of the states saved
ItemInputs ==
    {MakeItem(FsCtl, p) : p \in {PathOf(<<nT, nD>>), PathOf(<<nT, nA>>),
                                 PathOf(<<nT, nB1>>), PathOf(<<nT, nB2>>)}}

\* the states saved: one or two items, protected or public, the multi flag set or
\* not by the caller
StateInputs ==
    {[NewState(m.mode, m.username, m.password) EXCEPT !.Items = items, !.IsMulti = multi] :
        items \in SeqsUpTo(ItemInputs, MaxPaths) \ {<<>>},
        m \in {[mode |-> ModeProtected, username |-> DefaultUsername, password |-> Password],
               [mode |-> ModePublic, username |-> Empty, password |-> Empty]},
        multi \in BOOLEAN}

\* the documents an older release left: a bare path and type, no item list
LegacyInputs ==
    {[NewState(ModeProtected, DefaultUsername, Password)
         EXCEPT !.Path = p, !.ShareType = IF Stat(FsCtl, p).isDir THEN TypeDir ELSE TypeFile,
                !.IsMulti = multi] :
        p \in {PathOf(<<nT, nD>>), PathOf(<<nT, nA>>), PathOf(<<nT, nQ, nA>>)},
        multi \in BOOLEAN}

\* a State in memory and no state file, or a legacy state file and nothing loaded
InitState ==
    /\ \/ /\ \E s \in StateInputs : ctl = [Idle EXCEPT !.st = <<s>>]
          /\ disk = NoDisk
       \/ /\ ctl = Idle
          /\ \E doc \in LegacyInputs : disk = [NoDisk EXCEPT !.state = <<doc>>]
    /\ procs = NoProcs
    /\ port = PortFreeOrForeign(FALSE)
    /\ sent = {}
    /\ cred = NoCredentials
    /\ stats = NoStats
    /\ answered = 0
    /\ StatsAtRest
    /\ fs = FsCtl
    /\ paths = <<>>
    /\ newErr = "unbuilt"
    /\ srv = NoServer
    /\ req = NoRequest
    /\ resp = NoResponse
    /\ listing = NoListing
    /\ serverProc = NoServerProc
    /\ cmds = NoCmds

\* st.Save(): the legacy fields of the receiver are synchronised and the document
\* is written; args keeps the receiver as it is after the call
StateSave ==
    /\ ctl.pc = "idle"
    /\ ctl.st # <<>>
    /\ ctl.cmd # "save"
    /\ LET s == Save(ctl.st[1])
       IN  /\ disk' = WriteState(disk, s)
           /\ ctl' = [ctl EXCEPT !.cmd = "save", !.st = <<s>>, !.args = <<s>>]
    /\ UNCHANGED <<procs, port, sent, cmds, serveVars, httpVars>>

\* state.Load()
StateLoad ==
    /\ ctl.pc = "idle"
    /\ ctl.cmd # "load"
    /\ ~LoadFails(disk)
    /\ disk.state # <<>>
    /\ ctl' = [ctl EXCEPT !.cmd = "load", !.st = Load(disk)]
    /\ UNCHANGED <<disk, procs, port, sent, cmds, serveVars, httpVars>>

NextState ==
    \/ StateSave
    \/ StateLoad

SpecState == InitState /\ [][NextState]_vars

----------------------------------------------------------------------------
(* Properties of the file server *)

\* the elements of an absolute path, "." and ".." resolved lexically
Elems(path) == CleanSegs(Split(path), <<>>, TRUE)

\* location path is root or lies below it, element by element
Within(path, root) ==
    LET ps == Elems(path)
        rs == Elems(root)
    IN  Len(rs) <= Len(ps) /\ SubSeq(ps, 1, Len(rs)) = rs

Served == req # NoRequest /\ resp.status = StatusOK /\ resp.kind \in {"file", "dir"}

InsideSomeRoot(location) == \E i \in 1..Len(srv.items) : Within(location, srv.items[i].Path)

\* the display name NewServer derives from a path
DisplayName(p) == Base(FilepathAbs(p))

AllExist(ps) == \A i \in 1..Len(ps) : Stat(fs, FilepathAbs(ps[i])).err = "none"

DistinctNames(ps) ==
    \A i, j \in 1..Len(ps) : i # j => DisplayName(ps[i]) # DisplayName(ps[j])

SameNameTwice(ps) ==
    \E i, j \in 1..Len(ps) : ps[i] # ps[j] /\ DisplayName(ps[i]) = DisplayName(ps[j])

\* every item is found under its name in the server's index
ReachableByName ==
    \A i \in 1..Len(paths) :
        LET name == DisplayName(paths[i])
        IN  /\ name \in DOMAIN srv.itemMap
            /\ srv.items[srv.itemMap[name]].Path = FilepathAbs(paths[i])

\* C1 (as stated): every request whose path has a ".." element is answered with
\* Forbidden (403), never with 200.
C1_DotDotIsForbidden ==
    (req # NoRequest /\ containsDotDot(req.url)) => resp.status = StatusForbidden

\* C1 (amended): a request path with a ".." element is cleaned lexically before it
\* is routed and never makes the server stream a file: over the ServeMux it is
\* redirected (301); handed to the handler, a 200 is the directory listing that
\* the cleaned path gets, a file target is refused by http.ServeFile, and a
\* single-directory share answers 403 when the cleaned path still begins with "..".
C1_DotDotNeverStreamsFile ==
    (req # NoRequest /\ containsDotDot(req.url)) =>
        /\ resp.kind # "file"
        /\ req.via = "mux" => resp.status = StatusMovedPermanently
        /\ resp.status = StatusOK =>
               /\ resp.kind \in {"dir", "root"}
               /\ resp = handleRequest(srv, fs, Clean(req.url))
        /\ (/\ req.via = "handler"
            /\ ~srv.isMulti
            /\ srv.shareType = TypeDir
            /\ HasPrefix(Clean(req.url), DotDot)) => resp.status = StatusForbidden

\* a request with a ".." element answered 200 (a listing), and one answered 403
C1_Witness ==
    /\ req # NoRequest
    /\ containsDotDot(req.url)
    /\ resp.status = StatusOK
    /\ resp.kind = "dir"

\* no location below a root of the share is a symlink
RootsHaveNoSymlinks ==
    fs.link = "none" \/ \A i \in 1..Len(srv.items) : ~Within(PathOf(<<nT, nD, nL>>), srv.items[i].Path)

\* C2: when the roots of the share contain no symlinks, every 200 response serves
\* a file or a listing located inside a declared root, and the traversal request
\* /d/../../../e/p is never answered 200 (the handler answers it 403 or 404).
C2_NoTraversalOutsideRoots ==
    (newErr = "none" /\ RootsHaveNoSymlinks) =>
        /\ Served => InsideSomeRoot(resp.real)
        /\ req.url = TraversalExample =>
               /\ resp.status # StatusOK
               /\ req.via = "handler" => resp.status \in {StatusForbidden, StatusNotFound}

\* the traversal request answered by a two-item share, and a file served from a
\* root without symlinks
C2_Witness ==
    /\ newErr = "none"
    /\ RootsHaveNoSymlinks
    /\ Len(srv.items) = 2
    /\ req.url = TraversalExample
    /\ req.via = "handler"
    /\ resp.status = StatusNotFound

\* C3 (as stated): a request whose candidate resolves through symlinks to a
\* location that is not the root or below it, element by element, is not served:
\* whatever a 200 response serves lies inside a declared root.
C3_SymlinkEscapeNotServed ==
    Served => InsideSomeRoot(resp.real)

\* C4 (as stated): the status of a request does not depend on whether the
\* location outside the root that the symlink names exists.
C4_NoExistenceLeak ==
    (req # NoRequest /\ req.via = "handler" /\ fs.link \in {"sib", "out"}) =>
        resp.status = handleRequest(srv, [fs EXCEPT !.secret = ~@], req.url).status

\* C5 (as stated): distinct display names make construction succeed, with every
\* item reachable by its name; two distinct paths with one display name make it
\* fail with the name conflict and no server; so does the empty list.
C5_ConstructionByNames ==
    newErr # "unbuilt" =>
        /\ (paths # <<>> /\ DistinctNames(paths)) => (newErr = "none" /\ ReachableByName)
        /\ SameNameTwice(paths) => (newErr = "conflict" /\ srv = NoServer)
        /\ paths = <<>> => (newErr # "none" /\ srv = NoServer)

\* C5 (amended): for a list of paths that all exist, distinct display names make
\* construction succeed, with every item reachable by its name, and two distinct
\* paths with one display name make it fail with the name conflict and no server;
\* the empty list fails too, and so does a list with a path that does not exist.
C5_ConstructionOfExistingPaths ==
    newErr # "unbuilt" =>
        /\ (paths # <<>> /\ AllExist(paths) /\ DistinctNames(paths)) =>
               (newErr = "none" /\ ReachableByName)
        /\ (AllExist(paths) /\ SameNameTwice(paths)) =>
               (newErr = "conflict" /\ srv = NoServer)
        /\ paths = <<>> => (newErr = "nopaths" /\ srv = NoServer)
        /\ ~AllExist(paths) => (newErr = "access" /\ srv = NoServer)

\* a two-item server built from distinct names, a conflict, and the empty list
C5_Witness ==
    /\ newErr = "conflict"
    /\ Len(paths) = 2
    /\ paths[1] # paths[2]
    /\ AllExist(paths)

----------------------------------------------------------------------------
(* Properties of the controller commands *)

AddInputs == SeqsUpTo(PathInputs, MaxPaths) \ {<<>>}

\* the names of the persisted share
PersistedNames == IF Load(disk) = <<>> THEN {} ELSE ItemNames(Load(disk)[1].Items)

\* an add of ps names a path whose display name is taken, by the share or by an
\* earlier path of the same command
AddNameTaken(ps) ==
    \/ \E i \in 1..Len(ps) : Base(FilepathAbs(ps[i])) \in PersistedNames
    \/ NameConflict(ps)

LiveServers == {p \in Pids : procs[p].role = "server" /\ procs[p].status = "running"}
Tunnels == {p \in Pids : procs[p].role = "tunnel"}

\* the persisted share is served by the live server the state names
ServedByLive ==
    /\ Load(disk) # <<>>
    /\ Load(disk)[1].ServerPID \in LiveServers
    /\ procs[Load(disk)[1].ServerPID].paths = ItemPaths(Load(disk)[1].Items)

\* a step of an add or remove command
MutationStep ==
    /\ ctl' # ctl
    /\ \/ ctl.pc \in {"restart_stop", "restart_spawn", "restart_settle"}
       \/ ctl.pc = "idle" /\ ctl'.cmd \in {"add", "remove"}

\* a step of the add command (when the controller's record does not change, the
\* step is told from a step of a process by being a step of AddBegin)
AddStep ==
    /\ ctl.pc = "idle"
    /\ ctl'.cmd = "add"
    /\ \/ ctl' # ctl
       \/ \E ps \in AddInputs, saveOk \in BOOLEAN : AddBegin(ps, saveOk)

\* C6: an add command that names a path whose display name is already in the
\* share, or names one display name twice, fails as a whole: an add that goes on
\* to the restart names no display name that is taken, and an add that fails
\* leaves the persisted state and the PID files as they were, stops and spawns no
\* process and sends no signal, so the running server goes on serving the
\* original set
C6_AddConflictChangesNothing ==
    [][AddStep =>
          IF ctl'.pc = "idle"
          THEN /\ ctl'.exit # "ok"
               /\ disk' = disk
               /\ procs' = procs
               /\ port' = port
               /\ sent' = {}
          ELSE \A ps \in AddInputs, saveOk \in BOOLEAN :
                   AddBegin(ps, saveOk) => ~AddNameTaken(ps)]_vars

\* an add was refused for a name conflict while the share's server is serving
C6_Witness ==
    /\ ctl.pc = "idle"
    /\ ctl.cmd = "add"
    /\ ctl.exit = "name_conflict"
    /\ ServedByLive
    /\ procs[Load(disk)[1].ServerPID].phase = "serving"

\* C7: once an add or remove command that changed the persisted item set has
\* ended, with success or with an error, the persisted items are those served by
\* a live server process whose pid is the persisted ServerPID
C7_MutationAtomic ==
    (ctl.pc = "idle" /\ ctl.cmd \in {"add", "remove"} /\ ctl.exit \in {"ok", "spawn_failed"})
        => ServedByLive

\* C8: no step of an add or remove command touches the tunnel: the tunnel
\* processes are as before, no signal and no spawn concerns a tunnel, and the
\* tunnel PID file and the persisted TunnelPID are unchanged
C8_TunnelUntouched ==
    [][MutationStep =>
          /\ \A p \in Tunnels : procs'[p] = procs[p]
          /\ \A m \in sent' : procs'[m.pid].role # "tunnel"
          /\ disk'.tunnelPid = disk.tunnelPid
          /\ Load(disk) # <<>> =>
                /\ Load(disk') # <<>>
                /\ Load(disk')[1].TunnelPID = Load(disk)[1].TunnelPID]_vars

\* an add or remove has restarted the server of a share whose tunnel is running
C8_Witness ==
    /\ ctl.pc = "idle"
    /\ ctl.cmd \in {"add", "remove"}
    /\ ctl.exit = "ok"
    /\ \E m \in sent : m.sig = "TERM"
    /\ \E m \in sent : m.sig = "spawn"
    /\ disk.tunnelPid \in Tunnels
    /\ procs[disk.tunnelPid].status = "running"
    /\ Load(disk) # <<>>
    /\ Load(disk)[1].TunnelPID = disk.tunnelPid

\* C9: the restart spawns the new server only once the old server has released
\* the port, and when the command has returned at most one server process of the
\* share is alive
C9_RestartInOrder ==
    [][/\ (ctl.pc = "restart_spawn" /\ ctl'.pc = "restart_settle") => port.holder = 0
       /\ (MutationStep /\ ctl'.pc = "idle") => Cardinality(LiveServers') <= 1]_vars

\* C10: a share, add or remove command reports success only if the server it
\* spawned was still alive after the settle delay of the spawn
C10_SpawnConfirmsAlive ==
    (ctl.pc = "idle" /\ ctl.cmd \in {"share", "add", "remove"} /\ ctl.exit = "ok")
        => ~ctl.deadAtReturn

\* C11: when a graceful stop has returned, every process it sent SIGTERM to has
\* terminated (by itself or through the forced kill of the escalation), whether
\* or not the process is a child of the stopping command
C11_StopConfirmsTermination ==
    (ctl.pc = "idle" /\ ctl.cmd = "stop") =>
        \A m \in sent : m.sig = "TERM" => ~IsAlive(procs, m.pid)

\* a step of the stop command
StopStep ==
    /\ ctl.pc = "idle"
    /\ ctl'.cmd = "stop"
    /\ \/ ctl' # ctl
       \/ \E force \in BOOLEAN : Stop(force)

\* the process table, the port and the files after a stop command run on w and d
AfterStop(w, d, force) ==
    LET r == cmdStop(w, d, force)
    IN  [procs |-> r.procs, port |-> r.port, disk |-> r.disk]

LiveTunnels == {p \in Tunnels : procs[p].status = "running"}

\* a step of Manager.Start, called by the share command
StartStep == ctl.pc \in {"share_tunnel", "share_tunnel_settle"} /\ ctl' # ctl

\* the step spawns a tunnel process
TunnelSpawned == \E p \in Pids : procs[p].status = "unused" /\ procs'[p].role = "tunnel"

\* Start leaves the tunnel named by the PID file alone and hands its pid back:
\* the share command records it and ends well
StartReused(pid) ==
    /\ ~TunnelSpawned
    /\ \A p \in Tunnels : procs'[p] = procs[p]
    /\ disk'.tunnelPid = pid
    /\ ctl'.exit = "ok"
    /\ Load(disk') # <<>> => Load(disk')[1].TunnelPID = pid

TunnelFailures == {"cloudflared_not_found", "tunnel_failed", "tunnel_died"}

\* C14: when the start of the tunnel fails in a share command whose server has
\* already been spawned, the command ends with an error, the server it spawned is
\* no longer alive and holds no port, the state file is not written, and no
\* persisted state names that server
C14_TunnelFailureTearsDown ==
    [][(StartStep /\ ctl'.pc = "idle" /\ ctl'.exit # "ok") =>
          /\ ctl'.exit \in TunnelFailures
          /\ ~IsAlive(procs', ctl.pid)
          /\ port'.holder # ctl.pid
          /\ disk'.state = disk.state
          /\ Load(disk') # <<>> => Load(disk')[1].ServerPID # ctl.pid]_vars

\* a share command has failed to start its tunnel and has killed its server
C14_Witness ==
    /\ ctl.pc = "idle"
    /\ ctl.cmd = "share"
    /\ ctl.exit = "tunnel_failed"
    /\ ~ctl.deadAtReturn
    /\ \E m \in sent : /\ m.sig = "KILL"
                       /\ procs[m.pid].role = "server"
                       /\ ~IsAlive(procs, m.pid)
    /\ LiveServers = {}

\* C15: when a share or stop command has returned, at most one server process is
\* alive, and a live server is the one the state file names
C15_OneActiveShare ==
    (ctl.pc = "idle" /\ ctl.cmd \in {"share", "stop"}) =>
        /\ Cardinality(LiveServers) <= 1
        /\ \A p \in LiveServers : Load(disk) # <<>> /\ Load(disk)[1].ServerPID = p

\* C16: when a stop command, graceful or forced, has returned for a persisted
\* share, the state file, the server PID file and the tunnel PID file are gone
\* and the status command reports no active share
C16_StopRemovesState ==
    [][(StopStep /\ Load(disk) # <<>>) =>
          /\ ctl'.exit = "ok"
          /\ disk'.state = <<>>
          /\ disk'.serverPid = 0
          /\ disk'.tunnelPid = 0
          /\ cmdStatus(disk') = "no_active_share"]_vars

\* a stop command has stopped a share that had a server and a tunnel
C16_Witness ==
    /\ ctl.pc = "idle"
    /\ ctl.cmd = "stop"
    /\ ctl.exit = "ok"
    /\ disk = NoDisk
    /\ \E m \in sent : procs[m.pid].role = "server"
    /\ \E m \in sent : procs[m.pid].role = "tunnel"

----------------------------------------------------------------------------
(* internal/server: the listings on their own *)

\* most entries of one listing
MaxEntries == 4

\* the entries listed: directories and files, names in both cases, one name a
\* prefix of another
EntryInputs ==
    {FileInfo(nD, TRUE), FileInfo(<<"B">>, TRUE), FileInfo(nA, FALSE),
     FileInfo(<<"a", "2">>, FALSE), FileInfo(<<"D">>, FALSE)}

\* the entries in every order: names are unique in a directory and in the
\* item map
EntryOrders ==
    {e \in SeqsUpTo(EntryInputs, MaxEntries) :
        \A i, j \in 1..Len(e) : i # j => e[i] # e[j]}

\* the entries have been collected (from the items, or from os.ReadDir)
InitList ==
    /\ \E e \in EntryOrders : listing = [NoListing EXCEPT !.entries = e]
    /\ serverProc = NoServerProc
    /\ cmds = NoCmds
    /\ fs = FsCtl
    /\ paths = <<>>
    /\ newErr = "unbuilt"
    /\ srv = NoServer
    /\ req = NoRequest
    /\ resp = NoResponse
    /\ disk = NoDisk
    /\ procs = NoProcs
    /\ port = PortFreeOrForeign(FALSE)
    /\ ctl = Idle
    /\ sent = {}
    /\ cred = NoCredentials
    /\ stats = NoStats
    /\ answered = 0
    /\ StatsAtRest

\* the sort of one of the three listings and the rendering of its result
SortListing(by) ==
    /\ listing.by = "none"
    /\ listing' = [listing EXCEPT !.by = by, !.files = SortSlice(listing.entries)]
    /\ UNCHANGED <<serverProc, fs, paths, newErr, srv, req, resp, ctlVars, httpVars>>

\* listVirtualRoot: the items of a multi-item share
ListVirtualRootSort == SortListing("listVirtualRoot")

\* listDirectory: a directory of a single-directory share
ListDirectorySort == SortListing("listDirectory")

\* listDirectoryWithBase: a directory below an item of a multi-item share
ListDirectoryWithBaseSort == SortListing("listDirectoryWithBase")

NextList ==
    \/ ListVirtualRootSort
    \/ ListDirectorySort
    \/ ListDirectoryWithBaseSort

SpecList == InitList /\ [][NextList]_vars

----------------------------------------------------------------------------
(* The server process: the main goroutine in Server.Start, the goroutine that *)
(* waits for SIGTERM, and the requests in flight                              *)

\* most requests in flight at one time, and most requests of one behaviour
MaxInflight == 2
MaxServed == 3

\* the seconds srv.Shutdown is given
ShutdownTimeout == 5

\* runServerProcess has started the signal goroutine and called srv.Start, which
\* listens
InitShutdown ==
    /\ serverProc = [NoServerProc EXCEPT !.main = "listen", !.handler = "wait_signal",
                                         !.listening = TRUE]
    /\ fs = FsCtl
    /\ paths = <<>>
    /\ newErr = "unbuilt"
    /\ srv = NoServer
    /\ req = NoRequest
    /\ resp = NoResponse
    /\ listing = NoListing
    /\ disk = NoDisk
    /\ procs = NoProcs
    /\ port = PortFreeOrForeign(FALSE)
    /\ ctl = Idle
    /\ sent = {}
    /\ cmds = NoCmds
    /\ cred = NoCredentials
    /\ stats = NoStats
    /\ answered = 0
    /\ StatsAtRest

ShutdownRest == <<fs, paths, newErr, srv, req, resp, listing, ctlVars, httpVars>>

\* the listener accepts a connection and its request is handed to a goroutine
Accept ==
    /\ ~serverProc.exited
    /\ serverProc.listening
    /\ serverProc.inflight < MaxInflight
    /\ serverProc.inflight + serverProc.served < MaxServed
    /\ serverProc' = [serverProc EXCEPT !.inflight = @ + 1]
    /\ UNCHANGED ShutdownRest

\* a request in flight is answered in full
Complete ==
    /\ ~serverProc.exited
    /\ serverProc.inflight > 0
    /\ serverProc' = [serverProc EXCEPT !.inflight = @ - 1, !.served = @ + 1]
    /\ UNCHANGED ShutdownRest

\* SIGTERM arrives: the signal goroutine calls srv.Shutdown with a context of
\* five seconds, and Shutdown closes the listener at once
Sigterm ==
    /\ ~serverProc.exited
    /\ serverProc.handler = "wait_signal"
    /\ serverProc' = [serverProc EXCEPT !.handler = "shutdown", !.listening = FALSE]
    /\ UNCHANGED ShutdownRest

\* ListenAndServe returns http.ErrServerClosed to the main goroutine as soon as
\* Shutdown has been called
ListenReturns ==
    /\ ~serverProc.exited
    /\ serverProc.main = "listen"
    /\ ~serverProc.listening
    /\ serverProc' = [serverProc EXCEPT !.main = "returned"]
    /\ UNCHANGED ShutdownRest

\* a second of Shutdown's wait passes with a request still in flight
Tick ==
    /\ ~serverProc.exited
    /\ serverProc.handler = "shutdown"
    /\ serverProc.inflight > 0
    /\ serverProc.waited < ShutdownTimeout
    /\ serverProc' = [serverProc EXCEPT !.waited = @ + 1]
    /\ UNCHANGED ShutdownRest

\* srv.Shutdown returns: no request is in flight, or the context has expired
ShutdownReturns ==
    /\ ~serverProc.exited
    /\ serverProc.handler = "shutdown"
    /\ serverProc.inflight = 0 \/ serverProc.waited = ShutdownTimeout
    /\ serverProc' = [serverProc EXCEPT !.handler = "shutdown_done"]
    /\ UNCHANGED ShutdownRest

\* the signal goroutine calls os.Exit(0): the requests still in flight are cut
HandlerExit ==
    /\ ~serverProc.exited
    /\ serverProc.handler = "shutdown_done"
    /\ serverProc' = [serverProc EXCEPT !.exited = TRUE, !.code = 0, !.cut = serverProc.inflight,
                                        !.inflight = 0]
    /\ UNCHANGED ShutdownRest

\* runServerProcess: srv.Start has returned an error (ErrServerClosed is one), it
\* is printed and the main goroutine calls os.Exit(1)
MainExit ==
    /\ ~serverProc.exited
    /\ serverProc.main = "returned"
    /\ serverProc' = [serverProc EXCEPT !.exited = TRUE, !.code = 1, !.cut = serverProc.inflight,
                                        !.inflight = 0]
    /\ UNCHANGED ShutdownRest

NextShutdown ==
    \/ Accept
    \/ Complete
    \/ Sigterm
    \/ ListenReturns
    \/ Tick
    \/ ShutdownReturns
    \/ HandlerExit
    \/ MainExit

SpecShutdown == InitShutdown /\ [][NextShutdown]_vars

----------------------------------------------------------------------------
(* Two add or remove commands run at the same time on an active share.  Each  *)
(* is a process of its own; nothing orders them: every one of a command's     *)
(* steps below (the load, the save, the stop of the old server, the spawn of  *)
(* the new one, the last save) may fall between any two steps of the other.   *)
(* The writes succeed.                                                        *)

\* the share the commands work on: a directory and a file, served by process 1
RaceShare == <<PathOf(<<nT, nD>>), PathOf(<<nT, nI>>)>>

\* the path lists the add commands are given, and the names the remove
\* commands are given
RaceAddInputs == {<<PathOf(<<nT, nA>>)>>, <<PathOf(<<nT, nD, nS>>)>>, <<PathOf(<<nT, nQ, nA>>)>>}
RaceRemoveInputs == {<<nI>>}

RaceServer == [role |-> "server", status |-> "running", phase |-> "serving", term |-> FALSE,
               child |-> FALSE, paths |-> RaceShare, cred |-> NoCredentials]

InitRace ==
    /\ disk = [NoDisk EXCEPT
                 !.state = <<Save([NewState(ModePublic, Empty, Empty) EXCEPT
                                      !.Items = [i \in 1..Len(RaceShare) |->
                                                    MakeItem(FsCtl, RaceShare[i])],
                                      !.ServerPID = 1])>>,
                 !.serverPid = 1]
    /\ procs = [NoProcs EXCEPT ![1] = RaceServer]
    /\ port = [holder |-> 1, foreign |-> FALSE]
    /\ cmds = NoCmds
    /\ ctl = Idle
    /\ sent = {}
    /\ cred = NoCredentials
    /\ stats = NoStats
    /\ answered = 0
    /\ StatsAtRest
    /\ fs = FsCtl
    /\ paths = <<>>
    /\ newErr = "unbuilt"
    /\ srv = NoServer
    /\ req = NoRequest
    /\ resp = NoResponse
    /\ listing = NoListing
    /\ serverProc = NoServerProc

RaceRest == <<ctl, sent, serveVars, httpVars>>

\* the command's process exits
Exit(c, code) == [c EXCEPT !.pc = "done", !.exit = code]

\* cmdAdd up to its save: the state is loaded, the paths validated against it
\* and the new items appended to the copy in memory
AddLoad(k, ps) ==
    /\ cmds[k].pc = "idle"
    /\ LET st == Load(disk)
           c == [NoCommand EXCEPT !.cmd = "add", !.args = ps]
       IN  IF LoadFails(disk)
           THEN cmds' = [cmds EXCEPT ![k] = Exit(c, "load_failed")]
           ELSE IF st = <<>> \/ ~IsRunning(procs, st)
           THEN cmds' = [cmds EXCEPT ![k] = Exit(c, "not_running")]
           ELSE LET r == cmdAddItems(ItemNames(st[1].Items), ps, <<>>)
                    items == st[1].Items \o r.items
                IN  IF r.err # "none"
                    THEN cmds' = [cmds EXCEPT ![k] = Exit(c, r.err)]
                    ELSE cmds' = [cmds EXCEPT ![k] =
                                    [c EXCEPT !.pc = "save",
                                              !.st = <<[st[1] EXCEPT !.Items = items,
                                                                     !.IsMulti = Len(items) > 1]>>]]
    /\ UNCHANGED <<disk, procs, port, RaceRest>>

\* cmdRemove up to its save
RemoveLoad(k, names) ==
    /\ cmds[k].pc = "idle"
    /\ LET st == Load(disk)
           c == [NoCommand EXCEPT !.cmd = "remove", !.args = names]
           toRemove == {names[i] : i \in 1..Len(names)}
       IN  IF LoadFails(disk)
           THEN cmds' = [cmds EXCEPT ![k] = Exit(c, "load_failed")]
           ELSE IF st = <<>> \/ ~IsRunning(procs, st)
           THEN cmds' = [cmds EXCEPT ![k] = Exit(c, "not_running")]
           ELSE LET remaining == Remaining(st[1].Items, toRemove)
                    s1 == [st[1] EXCEPT !.Items = remaining, !.IsMulti = Len(remaining) > 1]
                IN  IF Len(st[1].Items) = 0
                    THEN cmds' = [cmds EXCEPT ![k] = Exit(c, "no_items")]
                    ELSE IF Len(remaining) = Len(st[1].Items)
                    THEN cmds' = [cmds EXCEPT ![k] = Exit(c, "not_found")]
                    ELSE IF Len(remaining) = 0
                    THEN cmds' = [cmds EXCEPT ![k] = Exit(c, "remove_all")]
                    ELSE cmds' = [cmds EXCEPT ![k] =
                                    [c EXCEPT !.pc = "save",
                                              !.st = <<IF Len(remaining) = 1
                                                       THEN [s1 EXCEPT !.Path = remaining[1].Path,
                                                                       !.ShareType = remaining[1].ShareType]
                                                       ELSE s1>>]]
    /\ UNCHANGED <<disk, procs, port, RaceRest>>

\* st.Save() of cmdAdd and cmdRemove: state.json becomes the command's copy
MutationSave(k) ==
    /\ cmds[k].pc = "save"
    /\ LET s2 == Save(cmds[k].st[1])
       IN  /\ disk' = WriteState(disk, s2)
           /\ cmds' = [cmds EXCEPT ![k].pc = "restart_stop", ![k].st = <<s2>>]
    /\ UNCHANGED <<procs, port, RaceRest>>

\* restartServer, first part, by command k: the server its copy names is stopped
RaceRestartStop(k) ==
    /\ cmds[k].pc = "restart_stop"
    /\ LET r == restartStop(World, disk, cmds[k].st[1])
       IN  /\ procs' = r.procs
           /\ port' = r.port
    /\ cmds' = [cmds EXCEPT ![k].pc = "restart_spawn"]
    /\ UNCHANGED <<disk, RaceRest>>

\* restartServer by command k: startServerProcess on the items of its copy
RaceRestartSpawn(k) ==
    /\ cmds[k].pc = "restart_spawn"
    /\ HasFreshPids(procs, 1)
    /\ LET pid == FreshPid(procs)
           st == cmds[k].st[1]
           argv == ServerArgs(ItemPaths(st.Items),
                              [username |-> st.Username, password |-> st.Password])
       IN  /\ procs' = Spawned(procs, pid, "server", ServerPaths(argv), ServerCred(argv))
           /\ disk' = [disk EXCEPT !.serverPid = pid]
           /\ cmds' = [cmds EXCEPT ![k].pc = "restart_settle", ![k].pid = pid]
    /\ UNCHANGED <<port, RaceRest>>

\* restartServer by command k, the end: the pid is recorded in its copy, the
\* copy saved, the command reports success and exits (its child is orphaned)
RaceRestartFinish(k) ==
    /\ cmds[k].pc = "restart_settle"
    /\ LET s2 == Save([cmds[k].st[1] EXCEPT !.ServerPID = cmds[k].pid])
           pid == cmds[k].pid
       IN  /\ disk' = WriteState(disk, s2)
           /\ cmds' = [cmds EXCEPT ![k] = Exit([@ EXCEPT !.st = <<s2>>], "ok")]
           /\ procs' = [procs EXCEPT ![pid].child = FALSE,
                                     ![pid].status = IF @ = "zombie" THEN "gone" ELSE @]
    /\ UNCHANGED <<port, RaceRest>>

NextRace ==
    \/ \E k \in Commands, ps \in RaceAddInputs : AddLoad(k, ps)
    \/ \E k \in Commands, names \in RaceRemoveInputs : RemoveLoad(k, names)
    \/ \E k \in Commands : MutationSave(k)
    \/ \E k \in Commands : RaceRestartStop(k)
    \/ \E k \in Commands : RaceRestartSpawn(k)
    \/ \E k \in Commands : RaceRestartFinish(k)
    \/ \E pid \in Pids : ServerBoot(pid)
    \/ \E pid \in Pids : Terminate(pid)

SpecRace == InitRace /\ [][NextRace]_vars

----------------------------------------------------------------------------
(* One directory shared alone and as an item of a multi-item share.  The      *)
(* directory /t/d is named directly or, where /t/d/l links to /t, through     *)
(* the link, as /t/d/l/d.                                                     *)

\* the file system in which /t/d/l is a link to the directory /t
FsLinkUp == [link |-> "up", secret |-> TRUE]

\* the names the directory root is given on the command line
BoundaryRoots(f) ==
    {PathOf(<<nT, nD>>)} \cup IF f.link = "up" THEN {PathOf(<<nT, nD, nL, nD>>)} ELSE {}

\* the other item of the multi-item share
BoundaryOther == PathOf(<<nT, nA>>)

\* the subpaths asked for below the root
SubPaths == {JoinSep(segs) : segs \in SeqsUpTo(UrlElems, MaxSegs)}

\* the request path for the subpath P: /P of the single share of root, and
\* /<name>/P of a multi-item share that holds root
BoundaryUrl(multi, root, P) ==
    IF multi THEN <<SL>> \o Base(root) \o <<SL>> \o P ELSE <<SL>> \o P

InitBoundary ==
    /\ fs \in FsConfigs \cup {FsLinkUp}
    /\ \E root \in BoundaryRoots(fs), multi \in BOOLEAN :
          /\ paths = IF multi THEN <<root, BoundaryOther>> ELSE <<root>>
          /\ newErr = NewServer(fs, paths).err
          /\ srv = NewServer(fs, paths).srv
    /\ req = NoRequest
    /\ resp = NoResponse
    /\ listing = NoListing
    /\ serverProc = NoServerProc
    /\ cmds = NoCmds
    /\ disk = NoDisk
    /\ procs = NoProcs
    /\ port = PortFreeOrForeign(FALSE)
    /\ ctl = Idle
    /\ sent = {}
    /\ cred = NoCredentials
    /\ stats = NoStats
    /\ answered = 0
    /\ StatsAtRest

NextBoundary ==
    \/ \E P \in SubPaths, v \in {"mux", "handler"} :
          Request([url |-> BoundaryUrl(srv.isMulti, paths[1], P), via |-> v])
    \/ Respond

SpecBoundary == InitBoundary /\ [][NextBoundary]_vars

----------------------------------------------------------------------------
(* Properties of the share's mode and credentials *)

\* the servers spawned for the share the state file describes, or for the share
\* the running command is building
ServersOfShare(mode) ==
    {p \in Pids : /\ procs[p].role = "server"
                  /\ \/ ctl.pc # "idle" /\ ctl.st # <<>> /\ ctl.pid = p /\ ctl.st[1].Mode = mode
                     \/ Load(disk) # <<>> /\ Load(disk)[1].ServerPID = p
                                         /\ Load(disk)[1].Mode = mode}

\* C19: in every persisted state the username and the password are both set iff
\* the mode is protected and both absent iff it is public (also when a password
\* was given together with --public), and every server process spawned for the
\* share, by share or by a restart of add/remove, enforces Basic Auth iff the
\* mode is protected
C19_ModeMatchesCredentials ==
    /\ Load(disk) # <<>> =>
          LET s == Load(disk)[1]
          IN  /\ s.Mode \in {ModeProtected, ModePublic}
              /\ s.Mode = ModeProtected <=> (s.Username # Empty /\ s.Password # Empty)
              /\ s.Mode = ModePublic <=> (s.Username = Empty /\ s.Password = Empty)
    /\ \A p \in ServersOfShare(ModeProtected) : AuthEnforced(procs[p].cred)
    /\ \A p \in ServersOfShare(ModePublic) : ~AuthEnforced(procs[p].cred)

\* a public share started with a password has been changed by add or remove: the
\* respawned server, like the state, has no credentials
C19_Witness ==
    /\ ctl.pc = "idle"
    /\ ctl.cmd \in {"add", "remove"}
    /\ ctl.exit = "ok"
    /\ Load(disk) # <<>>
    /\ Load(disk)[1].Mode = ModePublic
    /\ \E p, q \in Pids :
          /\ p # q
          /\ procs[q].role = "server"
          /\ procs[q].cred.password = Password
          /\ Load(disk)[1].ServerPID = p
          /\ procs[p].status = "running"
          /\ procs[p].cred = NoCredentials

\* the multi flag and the legacy fields of state s agree with its items
Consistent(s) ==
    /\ s.IsMulti = (Len(s.Items) > 1)
    /\ Len(s.Items) = 1 <=> (s.Path # Empty /\ s.ShareType # "")
    /\ Len(s.Items) = 1 => (s.Path = s.Items[1].Path /\ s.ShareType = s.Items[1].ShareType)
    /\ Len(s.Items) # 1 => (s.Path = Empty /\ s.ShareType = "")

\* the document a release without item lists keeps of a one-item state
LegacyOf(s) == [s EXCEPT !.Items = <<>>]

\* C20: after share, add and remove, in the state as saved and as loaded, the multi
\* flag is set iff there is more than one item and the legacy path and type are
\* those of the sole item iff there is exactly one item (also when the document
\* is loaded in its legacy form); a server is in multi mode iff it was built from
\* more than one item
C20_MultiMatchesItems ==
    /\ disk.state # <<>> =>
          /\ Len(disk.state[1].Items) >= 1
          /\ Consistent(disk.state[1])
          /\ Consistent(Load(disk)[1])
          /\ Consistent(Save(Load(disk)[1]))
          /\ Len(disk.state[1].Items) = 1 =>
                /\ Consistent(Load([disk EXCEPT !.state = <<LegacyOf(disk.state[1])>>])[1])
                /\ Load([disk EXCEPT !.state = <<LegacyOf(disk.state[1])>>])[1].Items[1].Path
                      = disk.state[1].Items[1].Path
    /\ \A p \in Pids :
          procs[p].role = "server" /\ procs[p].phase = "serving" =>
              LET r == NewServer(fs, procs[p].paths)
              IN  /\ r.err = "none"
                  /\ r.srv.isMulti = (Len(r.srv.items) > 1)
                  /\ Len(r.srv.items) = Len(procs[p].paths)
                  /\ ~r.srv.isMulti <=> r.srv.sharePath # Empty

\* a one-item share has grown to two items by add: the legacy fields are cleared,
\* the flag is set and the respawned server serves in multi mode
C20_Witness ==
    /\ ctl.pc = "idle"
    /\ ctl.cmd = "add"
    /\ ctl.exit = "ok"
    /\ disk.state # <<>>
    /\ Len(disk.state[1].Items) = 2
    /\ disk.state[1].IsMulti
    /\ disk.state[1].Path = Empty
    /\ \E p, q \in Pids :
          /\ p # q
          /\ procs[q].role = "server"
          /\ Len(procs[q].paths) = 1
          /\ disk.state[1].ServerPID = p
          /\ procs[p].phase = "serving"
          /\ procs[p].status = "running"
          /\ Len(procs[p].paths) = 2

----------------------------------------------------------------------------
(* Properties of the persisted item list *)

\* C21: in every persisted state reached by share, add and remove the display
\* names of the items are pairwise distinct and each is the base name of its
\* item's absolute path
C21_NamesUniqueAndBase ==
    Load(disk) # <<>> =>
        LET items == Load(disk)[1].Items
        IN  /\ \A i, j \in 1..Len(items) : i # j => items[i].Name # items[j].Name
            /\ \A i \in 1..Len(items) :
                  /\ items[i].Path = FilepathAbs(items[i].Path)
                  /\ items[i].Name = Base(items[i].Path)

----------------------------------------------------------------------------
(* Properties of the access statistics *)

\* the calls inside the read-modify-write cycle
InCycle == {c \in Callers : calls[c].pc \in {"read", "write", "unlock"}}

\* C22: the read-modify-write cycle on stats.json is mutually exclusive: at most
\* one call is inside it, holding the lock, and for every interleaving the stored
\* request count is the number of updates written and each of the last MaxRecent
\* records written is stored
C22_UpdatesAreExclusive ==
    /\ Cardinality(InCycle) <= 1
    /\ \A c \in InCycle : flock = c
    /\ statsFile.RequestCount = Len(written)
    /\ \A i \in 1..Len(written) :
          i > Len(written) - MaxRecent =>
              \E k \in 1..Len(statsFile.RecentAccess) : statsFile.RecentAccess[k] = written[i]

\* a call is writing while an earlier request's call still waits for the lock
C22_Witness ==
    \E c, d \in Callers :
        /\ calls[c].pc = "write"
        /\ calls[d].pc = "flock"
        /\ calls[d].record.Time < calls[c].record.Time
        /\ Len(written) >= 2

\* C23: stats.json holds at most MaxRecent recent records, they are the records
\* written last, in the order they were written, and the last-access time is the
\* time of the record written last
C23_RecentIsLastTen ==
    LET n == Len(written)
        k == IF n > MaxRecent THEN MaxRecent ELSE n
    IN  /\ Len(statsFile.RecentAccess) = k
        /\ k <= MaxRecent
        /\ \A i \in 1..k : statsFile.RecentAccess[i] = written[n - k + i]
        /\ n > 0 => statsFile.LastAccess = written[n].Time

\* an eleventh record has been written, out of start-time order, and the oldest
\* one dropped
C23_Witness ==
    /\ Len(written) = MaxRecent + 1
    /\ Len(statsFile.RecentAccess) = MaxRecent
    /\ statsFile.RecentAccess[1] = written[2]
    /\ statsFile.LastAccess = written[MaxRecent + 1].Time
    /\ \E i \in 1..MaxRecent : written[i].Time > written[MaxRecent + 1].Time

\* C24: the lock on stats.json is held only by a call inside the cycle (every
\* return, the error returns too, leaves it released), and a call waiting for the
\* lock eventually acquires it and returns
C24_LockReleasedAndAcquired ==
    /\ [](flock # 0 => flock \in InCycle)
    /\ \A c \in Callers : (calls[c].pc = "flock") ~> (calls[c].pc = "none")

\* a call waits for the lock while the other holds it, after a call has failed
C24_Witness ==
    \E c, d \in Callers :
        /\ calls[c].pc = "flock"
        /\ flock = d
        /\ d # c
        /\ \E i \in 1..Len(written) : written[i].Time > 2
        /\ \A i \in 1..Len(written) : written[i].Time # 2
        /\ calls[c].record.Time # 2 /\ calls[d].record.Time # 2

----------------------------------------------------------------------------
(* Properties of a state file that cannot be read *)

\* C26: with no state file stop, add and remove report that no share is active and
\* status shows none; with a state file that is not a JSON document status, stop,
\* add, remove and share end with an error and change nothing: share does not
\* start a new share
C26_MalformedStateIsHardError ==
    [][(ctl.pc = "idle" /\ ctl' # ctl) =>
          /\ LoadFails(disk) =>
                /\ cmdStatus(disk) = "load_failed"
                /\ ctl'.pc = "idle"
                /\ ctl'.exit \in {"load_failed", "not_exist", "name_conflict"}
                /\ UNCHANGED <<disk, procs, port>>
          /\ (~LoadFails(disk) /\ disk.state = <<>>) =>
                /\ cmdStatus(disk) = "no_active_share"
                /\ ctl'.cmd = "stop" => ctl'.exit = "no_active_share"
                /\ ctl'.cmd \in {"add", "remove"} => ctl'.exit = "not_running"]_vars

----------------------------------------------------------------------------
(* Properties of Save and Load *)

\* the fields of a state that make up the share: the items (names, paths, kinds,
\* in order), the multi flag, the share identifier, the mode and the credentials
ShareOf(s) ==
    [Items |-> s.Items, IsMulti |-> s.IsMulti, ShareID |-> s.ShareID, Mode |-> s.Mode,
     Username |-> s.Username, Password |-> s.Password]

\* C27: a state with one or more items that was saved and is loaded again has the
\* same items (names, paths, kinds, order), multi flag, share identifier, mode and
\* credentials as the state saved
C27_RoundTripExact ==
    (ctl.cmd = "load" /\ ctl.args # <<>> /\ Len(ctl.args[1].Items) >= 1) =>
        /\ ctl.st # <<>>
        /\ ShareOf(ctl.st[1]) = ShareOf(ctl.args[1])

\* the document on disk is a legacy one: no item list, a bare path
IsLegacy(d) == d.state # <<>> /\ Len(d.state[1].Items) = 0 /\ d.state[1].Path # Empty

\* C28: a legacy document (no item list, a bare path and type) loads as one item
\* with the legacy path, the base name of that path and the legacy type, and the
\* multi flag unset; the migrated state saved and loaded again has the same one
\* item
C28_LegacyLoadsAsOneItem ==
    (ctl.cmd = "load" /\ IsLegacy(disk)) =>
        /\ ctl.st # <<>>
        /\ Len(ctl.st[1].Items) = 1
        /\ ctl.st[1].Items[1].Path = disk.state[1].Path
        /\ ctl.st[1].Items[1].Name = Base(disk.state[1].Path)
        /\ ctl.st[1].Items[1].ShareType = disk.state[1].ShareType
        /\ ~ctl.st[1].IsMulti
        /\ LET again == Load(WriteState(disk, Save(ctl.st[1])))
           IN  /\ again # <<>>
               /\ again[1].Items = ctl.st[1].Items
               /\ ~again[1].IsMulti

\* the legacy document of the file /t/q/a, written with the multi flag set, was
\* loaded
C28_Witness ==
    /\ ctl.cmd = "load"
    /\ IsLegacy(disk)
    /\ disk.state[1].IsMulti
    /\ disk.state[1].Path = PathOf(<<nT, nQ, nA>>)
    /\ ctl.st[1].Items[1].Name = nA

----------------------------------------------------------------------------
(* Properties of the handler chain *)

\* C25: when opening or locking stats.json fails the request still succeeds: the
\* response is the one the handler produced, the handler returns and the access
\* log gets its line; only the request count is not updated
C25_FailedUpdateKeepsResponse ==
    [][(req = NoRequest /\ req' # NoRequest /\ stats'.logLines = stats.logLines + 1
           /\ stats'.lastErr # "none") =>
          /\ resp' = handleRequest(srv, fs, req'.url)
          /\ resp'.noStore
          /\ answered' = answered + 1
          /\ stats'.requestCount = stats.requestCount]_vars

\* a file was served in full although Flock had failed for the request
C25_Witness ==
    /\ req # NoRequest
    /\ stats.lastErr = "flock"
    /\ resp.status = StatusOK
    /\ resp.kind = "file"
    /\ stats.requestCount < stats.logLines
    /\ stats.requestCount > 0

\* C17: every response, whatever its status, adds one record to the statistics
\* store and one line to the access log: the request count and the number of log
\* lines equal the number of requests answered
C17_OneRecordPerResponse ==
    /\ stats.requestCount = answered
    /\ stats.logLines = answered

\* C18: every response carries Cache-Control: no-store
C18_NoStoreOnEveryResponse == req # NoRequest => resp.noStore

----------------------------------------------------------------------------
(* Properties of the listings *)

\* C29: every listing (virtual root, single-directory share, item directory of a
\* multi-item share) has all its directories before all its files, the names
\* ascending within each group, whatever the order of the entries collected,
\* and holds exactly the entries collected
C29_ListingSorted ==
    listing.by # "none" =>
        LET files == listing.files
            entries == listing.entries
        IN  /\ \A i, j \in 1..Len(files) :
                  i < j => /\ files[j].IsDir => files[i].IsDir
                           /\ files[i].IsDir = files[j].IsDir
                                 => StringLess(files[i].Name, files[j].Name)
            /\ Len(files) = Len(entries)
            /\ {files[i] : i \in 1..Len(files)} = {entries[i] : i \in 1..Len(entries)}

\* a listing was rendered whose entries came with a file before a directory, an
\* upper-case name after a lower-case one and a name after its extension
C29_Witness ==
    /\ listing.by = "listDirectoryWithBase"
    /\ Len(listing.entries) = MaxEntries
    /\ listing.entries = <<FileInfo(<<"a", "2">>, FALSE), FileInfo(nD, TRUE),
                           FileInfo(nA, FALSE), FileInfo(<<"B">>, TRUE)>>
    /\ listing.files = <<FileInfo(<<"B">>, TRUE), FileInfo(nD, TRUE),
                         FileInfo(nA, FALSE), FileInfo(<<"a", "2">>, FALSE)>>

----------------------------------------------------------------------------
(* Properties of the routing of a multi-item share *)

\* the request reached handleMultiShare
ReachedMultiShare ==
    /\ newErr = "none"
    /\ srv.isMulti
    /\ req # NoRequest
    /\ req.via = "handler" \/ MuxCleanPath(req.url) = req.url

\* C30 (as stated): in a multi-item share the request path "/" (or one that is
\* empty or "." once cleaned) is answered 200 with the root listing that names
\* every item; a path whose first element is no item name is answered 404; a
\* path below a file item is answered 404; and "/<name>" of a file item is
\* answered 200 with the bytes of that file.
C30_MultiShareRouting ==
    ReachedMultiShare =>
        LET cleaned == TrimPrefix(Clean(req.url), <<SL>>)
            segs == Split(cleaned)
            names == {srv.items[i].Name : i \in 1..Len(srv.items)}
            listed == VirtualRootFiles(srv)
        IN  /\ cleaned \in {Empty, Dot} =>
                  /\ resp.status = StatusOK
                  /\ resp.kind = "root"
                  /\ {listed[i].Name : i \in 1..Len(listed)} = names
            /\ (cleaned \notin {Empty, Dot} /\ segs[1] \notin names) =>
                  resp.status = StatusNotFound
            /\ \A i \in 1..Len(srv.items) :
                  srv.items[i].ShareType = TypeFile =>
                      /\ (cleaned \notin {Empty, Dot} /\ segs[1] = srv.items[i].Name
                            /\ Len(segs) > 1) => resp.status = StatusNotFound
                      /\ req.url = <<SL>> \o srv.items[i].Name =>
                            /\ resp.status = StatusOK
                            /\ resp.kind = "file"
                            /\ resp.real = Stat(fs, srv.items[i].Path).real

----------------------------------------------------------------------------
(* Properties of the single-item share *)

\* the request reached the handler of a single-item share
ReachedSingleShare ==
    /\ newErr = "none"
    /\ ~srv.isMulti
    /\ req # NoRequest
    /\ req.via = "handler" \/ MuxCleanPath(req.url) = req.url

\* C31 (as stated): in a single-item share only the request paths "/" and
\* "/<itemName>" resolve to the item and every other path is answered 404; when
\* the item is a file both paths are answered 200 with the bytes of the file and
\* a Content-Disposition header that carries its base name.
C31_SingleItemPaths ==
    ReachedSingleShare =>
        LET itemName == Base(srv.sharePath)
            itemPaths == {<<SL>>, <<SL>> \o itemName}
        IN  /\ req.url \notin itemPaths => resp.status = StatusNotFound
            /\ (srv.shareType = TypeFile /\ req.url \in itemPaths) =>
                  /\ resp.status = StatusOK
                  /\ resp.kind = "file"
                  /\ resp.real = Stat(fs, srv.sharePath).real
                  /\ resp.disposition = itemName

----------------------------------------------------------------------------
(* Properties of Basic Auth *)

\* C32: with Basic Auth mounted, a request that reaches it is passed to the
\* wrapped handler (which then logs it) exactly when its Authorization header has
\* the scheme Basic and decodes to the configured username, a colon and the
\* configured password; every other request (no header, another scheme, a token
\* that is not base64 or holds no colon, a wrong username, a wrong password) is
\* answered 401 with the challenge and the wrapped handler is not run.
C32_BasicAuthGuardsHandler ==
    [][(/\ req = NoRequest
        /\ req' # NoRequest
        /\ AuthEnforced(cred)
        /\ MuxCleanPath(req'.url) = req'.url) =>
          LET a == req'.authorization
              match == /\ a.scheme = "Basic"
                       /\ a.decodable
                       /\ a.decoded = cred.username \o <<Colon>> \o cred.password
              invoked == stats'.logLines = stats.logLines + 1
          IN  /\ invoked <=> match
              /\ match => resp'.status # StatusUnauthorized
              /\ ~match => (resp' = unauthorized /\ stats' = stats)]_vars

\* a request with the right username and a wrong password was answered 401 by a
\* share whose password holds a colon
C32_Witness ==
    /\ AuthEnforced(cred)
    /\ cred.password = ColonPassword
    /\ req # NoRequest
    /\ req.authorization = SetBasicAuth(DefaultUsername, Password)
    /\ resp = unauthorized
    /\ stats.logLines = 1

----------------------------------------------------------------------------
(* Properties of the server's command line *)

\* C33 (as stated): the server process decodes from its command line the path
\* list the command encoded, the same paths in the same order, whatever bytes
\* the paths hold, and the username and the password it reads are the ones the
\* command passed.
C33_PathsArgRoundTrip ==
    [][\A p \in Pids :
          (procs[p].status = "unused" /\ procs'[p].role = "server") =>
              IF ctl.cmd = "share"
              THEN /\ procs'[p].paths = ctl.args
                   /\ procs'[p].cred = ctl.cred
              ELSE /\ procs'[p].paths = ItemPaths(ctl.st[1].Items)
                   /\ procs'[p].cred = [username |-> ctl.st[1].Username,
                                        password |-> ctl.st[1].Password]]_vars

----------------------------------------------------------------------------
(* Properties of a share command that is refused *)

\* C34: a share command one of whose paths does not exist, or two of whose paths
\* have one display name, ends with an error before any effect: no process is
\* spawned or signalled, no file of the configuration directory is written, and a
\* share that is running is neither stopped nor changed (the command goes past
\* its checks only with paths that all exist under distinct names, and when it
\* ends at them nothing has changed).
C34_RefusedShareHasNoEffect ==
    [][(ctl.pc = "idle" /\ ctl'.cmd = "share") =>
          /\ ctl'.pc # "idle" => (AllExist(ctl'.args) /\ DistinctNames(ctl'.args))
          /\ (ctl'.pc = "idle" /\ ctl' # ctl) =>
                /\ ctl'.exit \in {"not_exist", "name_conflict"}
                /\ procs' = procs
                /\ port' = port
                /\ disk' = disk
                /\ sent' = {}]_vars

\* a share of two files of one name was refused while a share was being served
C34_Witness ==
    /\ ctl.pc = "idle"
    /\ ctl.cmd = "share"
    /\ ctl.exit = "name_conflict"
    /\ Load(disk) # <<>>
    /\ IsAlive(procs, Load(disk)[1].ServerPID)
    /\ procs[Load(disk)[1].ServerPID].phase = "serving"

----------------------------------------------------------------------------
(* Properties of the remove command *)

\* C35: a remove command never leaves the share with no item.  When its names
\* cover every item, or match none, it ends with an error, the persisted state
\* as it was and the server not restarted; otherwise the state it persists
\* holds exactly the items whose names were not given, in their old order.
C35_RemoveKeepsAnItem ==
    [][ctl'.cmd = "remove" =>
          /\ Load(disk') # <<>> => Len(Load(disk')[1].Items) > 0
          /\ (ctl.pc = "idle" /\ ctl'.pc = "idle" /\ ctl' # ctl) =>
                /\ ctl'.exit # "ok"
                /\ disk' = disk
                /\ procs' = procs
                /\ port' = port
                /\ sent' = {}
          /\ (ctl.pc = "idle" /\ ctl'.pc # "idle") =>
                LET old == Load(disk)[1].Items
                    new == Load(disk')[1].Items
                    names == {ctl'.args[i] : i \in 1..Len(ctl'.args)}
                IN  /\ new = SelectSeq(old, LAMBDA it : it.Name \notin names)
                    /\ 0 < Len(new)
                    /\ Len(new) < Len(old)]_vars

\* a remove of one name that is an item and one that is not has gone on to the
\* restart with the other item left
C35_Witness ==
    /\ ctl.cmd = "remove"
    /\ ctl.pc = "restart_stop"
    /\ ctl.args = <<nX, nA>>
    /\ Load(disk) # <<>>
    /\ Len(Load(disk)[1].Items) = 1
    /\ Load(disk)[1].Items[1].Name = nD

----------------------------------------------------------------------------
(* Properties of the server's shutdown *)

\* C36 (as stated): once the terminate request has been taken the server accepts
\* no new connection, and the process exits only when srv.Shutdown has returned,
\* that is with no request cut off unless the five seconds have passed; the
\* return of ListenAndServe on the main goroutine does not end the process
\* before that.
C36_GracefulShutdown ==
    /\ serverProc.handler \in {"shutdown", "shutdown_done"} => ~serverProc.listening
    /\ serverProc.exited =>
          /\ serverProc.handler = "shutdown_done"
          /\ serverProc.cut = 0 \/ serverProc.waited = ShutdownTimeout

----------------------------------------------------------------------------
(* Properties of the statistics as the status command reads them *)

\* C37 (as stated): the request counts that LoadStats returns never go down: a
\* read never sees stats.json cut to nothing and not yet written again, so it
\* never reports zero requests for a store that holds a positive count.
C37_ReadsNeverGoDown ==
    \A i, j \in 1..Len(observed) : i < j => observed[i] <= observed[j]

----------------------------------------------------------------------------
(* Properties of add and remove commands run at the same time *)

\* both commands have reported success
BothSucceeded == \A k \in Commands : cmds[k].pc = "done" /\ cmds[k].exit = "ok"

\* no server process is still starting or still about to exit
Settled ==
    \A p \in Pids : procs[p].status = "running" => (procs[p].phase = "serving" /\ ~procs[p].term)

\* the persisted share shows the mutation of command k
Reflected(k) ==
    LET given == {cmds[k].args[i] : i \in 1..Len(cmds[k].args)}
    IN  IF cmds[k].cmd = "add"
        THEN {Base(FilepathAbs(p)) : p \in given} \subseteq PersistedNames
        ELSE given \cap PersistedNames = {}

\* the display names of the persisted share are pairwise different
PersistedNamesUnique ==
    Load(disk) # <<>> /\ Cardinality(PersistedNames) = Len(Load(disk)[1].Items)

\* C38: when two add commands, or an add and a remove, that ran at the same time
\* have both reported success (and the servers have settled), the persisted
\* share shows both mutations, its names are unique, and the persisted server
\* pid names the one live server, which serves exactly that share
C38_ConcurrentMutationsBothKept ==
    (BothSucceeded /\ Settled) =>
        /\ \A k \in Commands : Reflected(k)
        /\ PersistedNamesUnique
        /\ ServedByLive
        /\ Cardinality(LiveServers) = 1

----------------------------------------------------------------------------
(* Properties of the stop command: what it leaves alive *)

\* the server and tunnel processes that are alive
LiveProcesses == {p \in Pids : procs[p].role \in {"server", "tunnel"} /\ IsAlive(procs, p)}

\* the stop command has returned (it printed that the share was stopped, or that
\* there is no active share)
StopReturned == ctl.pc = "idle" /\ ctl.cmd = "stop" /\ ctl.exit \in {"ok", "no_active_share"}

\* C39: once stop has returned, no server or tunnel process that an earlier
\* share command spawned is alive, also when the state file is absent while the
\* server or the tunnel PID file still names a live process
C39_StopLeavesNothingAlive == StopReturned => LiveProcesses = {}

----------------------------------------------------------------------------
(* Properties of the security boundary across the two directory modes *)

\* the response of a server to a request that came the way v
Answer(sv, url, v) == IF v = "mux" THEN ServeHTTP(sv, fs, url) ELSE handleRequest(sv, fs, url)

\* the subpath the request under way asks for
RequestedSubPath ==
    TrimPrefix(req.url, BoundaryUrl(srv.isMulti, paths[1], Empty))

\* the answer to the same subpath of the same root in the other mode
OtherModeAnswer ==
    LET other == IF srv.isMulti THEN <<paths[1]>> ELSE <<paths[1], BoundaryOther>>
    IN  Answer(NewServer(fs, other).srv,
               BoundaryUrl(~srv.isMulti, paths[1], RequestedSubPath), req.via)

\* C40: for every directory root and every subpath P (a path without a ".."
\* element), the single share of the root answering /P and a multi-item share
\* that holds the root answering /<name>/P are both Forbidden or both not, also
\* when the root is reached through a symlinked path component
C40_SameBoundaryInBothModes ==
    (req # NoRequest /\ ~containsDotDot(RequestedSubPath)) =>
        ((resp.status = StatusForbidden) <=> (OtherModeAnswer.status = StatusForbidden))

====
